---- MODULE Spec2Model ----
(***************************************************************************)
(* A model of the FACET compiler (facet-lang/facet_lang): the lexer's      *)
(* indentation discipline, the parser's tree building, import expansion,   *)
(* the @vars / @var_types environment, the evaluator of canonize and the   *)
(* anchor resolver.                                                        *)
(*                                                                         *)
(* Values.  A Python value is a tagged record:                             *)
(*   str   [t |-> "str",  s  |-> <<chars>>]    (a string is its characters) *)
(*   int   [t |-> "int",  n  |-> 3]                                         *)
(*   bool  [t |-> "bool", b  |-> TRUE]                                      *)
(*   None  [t |-> "null"]                                                   *)
(*   dict  [t |-> "dict", es |-> <<[k |-> key, v |-> value], ...>>]         *)
(*         (insertion ordered, keys unique, a key is a character sequence)  *)
(*   list  [t |-> "list", xs |-> <<value, ...>>]                            *)
(* and the parser objects of ast.py are records tagged "Fence",            *)
(* "ListItem" and "KV".                                                    *)
(***************************************************************************)
EXTENDS Integers, Sequences, FiniteSets, TLC

VARIABLES
    pc,               \* the stage of the compilation
    err,              \* the code of the FacetError raised, "" for none
    msg,              \* its message, where two errors share a code
    doc,              \* the document handed to canonize, as written
    host_vars,        \* canonize(host_vars=...)
    resolve_mode,     \* canonize(resolve_mode=...)
    import_roots,     \* canonize(import_roots=...), a non-empty list of paths
    strict_merge,     \* canonize(strict_merge=...)
    files,            \* the regular files of the file system: path |-> written text
    run,              \* 1 for the compilation of doc, 2 for the recompilation of
                      \* the document with its imports inlined
    first,            \* the outcome of run 1, kept for the comparison
    source,           \* the text handed to lex() and to Parser(), as characters
    tokens,           \* the token list lex() returned
    lines,            \* Parser(text): "" before the call, then "built" or the error
    lexer,            \* lex(): the _Lexer at work and the local level of
                      \* _handle_indent, None outside lex()
    parser,           \* parse(): the Parser at work with its active calls,
                      \* None outside parse()
    facets,           \* canonize: facets
    frames,           \* expand_imports: one frame per active call
    count,            \* expand_imports: _count[0]
    reads,            \* the files read_text has opened, in order
    fi,               \* the index of the facet a loop of canonize stands at
    vi,               \* the index of the @vars entry the inner loop stands at
    compile_vars,     \* canonize: compile_vars
    var_types_specs,  \* canonize: var_types_specs
    normal_facets,    \* canonize: normal_facets
    env,              \* canonize: env
    evalOps,          \* calls of eval_if, substitute_scalar,
                      \* interpolate_string and apply_pipeline made so far
    out,              \* canonize: out, the tree handed to resolve_anchors
    anchors,          \* resolve_anchors: anchors
    walk,             \* resolve_anchors: the active calls of _walk_substitute
    heap,             \* the list objects a lens call can reach, each its elements
    given,            \* the value and the lens call a caller applies
    returned,         \* what each call of the lens returned or raised, in order
    result            \* the tree returned

vars == <<pc, err, msg, doc, host_vars, resolve_mode, import_roots, strict_merge, files,
          run, first, source, tokens, lines, lexer, parser, facets, frames, count, reads, fi, vi,
          compile_vars, var_types_specs, normal_facets, env, evalOps, out, anchors, walk, heap, given, returned, result>>
inputVars == <<doc, host_vars, resolve_mode, import_roots, strict_merge, files, run, first>>
lexVars == <<source, tokens, lines, lexer, parser>>
lensVars == <<heap, given, returned>>
importVars == <<frames, count, reads>>
canonVars == <<facets, fi, vi, compile_vars, var_types_specs, normal_facets, env, evalOps>>

-----------------------------------------------------------------------------
(* Value constructors *)

StrV(cs) == [t |-> "str", s |-> cs]
IntV(n) == [t |-> "int", n |-> n]
BoolV(b) == [t |-> "bool", b |-> b]
Null == [t |-> "null"]
Dict(es) == [t |-> "dict", es |-> es]
List(xs) == [t |-> "list", xs |-> xs]
E(k, v) == [k |-> k, v |-> v]

(* F(x), with x evaluated once *)
Bind(x, F(_)) == CHOOSE v \in {F(y) : y \in {x}} : TRUE

(* Python dict operations on the ordered entry sequence *)
Has(d, k) == \E i \in 1..Len(d.es) : d.es[i].k = k
Get(d, k) == d.es[CHOOSE i \in 1..Len(d.es) : d.es[i].k = k].v
Put(d, k, v) ==
    IF Has(d, k)
    THEN Dict([i \in 1..Len(d.es) |-> IF d.es[i].k = k THEN E(k, v) ELSE d.es[i]])
    ELSE Dict(Append(d.es, E(k, v)))
Values(d) == [i \in 1..Len(d.es) |-> d.es[i].v]
EmptyDict == Dict(<<>>)
(* m.update(es), {**m, **es} *)
RECURSIVE Update(_, _)
Update(m, es) == IF es = <<>> THEN m ELSE Update(Put(m, Head(es).k, Head(es).v), Tail(es))

-----------------------------------------------------------------------------
(* The words of the language, as Python strings *)

ANCHOR_KEY == <<"&">>
ALIAS_KEY == <<"*">>
S_value == <<"v", "a", "l", "u", "e">>
S_attrs == <<"_", "a", "t", "t", "r", "s">>
S_items == <<"i", "t", "e", "m", "s">>
S_if == <<"i", "f">>
S_vars == <<"v", "a", "r", "s">>
S_var_types == <<"v", "a", "r", "_", "t", "y", "p", "e", "s">>
S_import == <<"i", "m", "p", "o", "r", "t">>
S_true == <<"t", "r", "u", "e">>
S_false == <<"f", "a", "l", "s", "e">>
S_null == <<"n", "u", "l", "l">>

-----------------------------------------------------------------------------
(* Python str operations on character sequences *)

Lower == {"a", "b", "c", "d", "e", "f", "g", "h", "i", "j", "k", "l", "m",
          "n", "o", "p", "q", "r", "s", "t", "u", "v", "w", "x", "y", "z"}
Upper == {"A", "B", "C", "D", "E", "F", "G", "H", "I", "J", "K", "L", "M",
          "N", "O", "P", "Q", "R", "S", "T", "U", "V", "W", "X", "Y", "Z"}
Digit == {"0", "1", "2", "3", "4", "5", "6", "7", "8", "9"}
Space == {" ", "\t", "\n", "\r"}

(* text.startswith(prefix, i), positions from 1 *)
StartsWithAt(text, prefix, i) ==
    /\ i + Len(prefix) - 1 <= Len(text)
    /\ \A j \in 1..Len(prefix) : text[i + j - 1] = prefix[j]

StartsWith(text, prefix) == StartsWithAt(text, prefix, 1)
EndsWith(text, suffix) ==
    Len(suffix) <= Len(text) /\ StartsWithAt(text, suffix, Len(text) - Len(suffix) + 1)

(* text.find(sub, i): the first position >= i where sub starts, 0 for none *)
Find(text, sub, i) ==
    IF \E j \in i..Len(text) : StartsWithAt(text, sub, j)
    THEN CHOOSE j \in i..Len(text) :
             StartsWithAt(text, sub, j) /\ \A h \in i..(j - 1) : ~StartsWithAt(text, sub, h)
    ELSE 0

Contains(text, sub) == Find(text, sub, 1) # 0

(* text.strip() *)
RECURSIVE LStrip(_)
LStrip(text) == IF text # <<>> /\ Head(text) \in Space THEN LStrip(Tail(text)) ELSE text
RECURSIVE RStrip(_)
RStrip(text) ==
    IF text # <<>> /\ text[Len(text)] \in Space
    THEN RStrip(SubSeq(text, 1, Len(text) - 1)) ELSE text
Strip(text) == RStrip(LStrip(text))

(* text.split(sep): the pieces between the positions of sep *)
Split(text, sep) ==
    LET cuts == {0, Len(text) + 1} \cup {i \in 1..Len(text) : text[i] = sep}
        Cut(k) == CHOOSE c \in cuts : Cardinality({d \in cuts : d < c}) = k
    IN  [k \in 1..(Cardinality(cuts) - 1) |-> SubSeq(text, Cut(k - 1) + 1, Cut(k) - 1)]

(* sep.join(parts) *)
RECURSIVE Join(_, _)
Join(parts, sep) ==
    IF parts = <<>> THEN <<>>
    ELSE IF Len(parts) = 1 THEN parts[1]
    ELSE parts[1] \o sep \o Join(Tail(parts), sep)

(* str(n) for an int *)
DigitChar(d) == CASE d = 0 -> "0" [] d = 1 -> "1" [] d = 2 -> "2" [] d = 3 -> "3"
                  [] d = 4 -> "4" [] d = 5 -> "5" [] d = 6 -> "6" [] d = 7 -> "7"
                  [] d = 8 -> "8" [] d = 9 -> "9"
RECURSIVE NatChars(_)
NatChars(n) == IF n < 10 THEN <<DigitChar(n)>>
               ELSE Append(NatChars(n \div 10), DigitChar(n % 10))
IntChars(n) == IF n < 0 THEN <<"-">> \o NatChars(0 - n) ELSE NatChars(n)

(* int(cs) for a run of digits, onto n *)
RECURSIVE DigitsValue(_, _)
DigitsValue(cs, n) ==
    IF cs = <<>> THEN n
    ELSE DigitsValue(Tail(cs), 10 * n + (CHOOSE d \in 0..9 : DigitChar(d) = Head(cs)))

(* json.dumps(val, ensure_ascii=False) with the default separators; strings *)
(* of the model hold no character that JSON escapes but the quote and the   *)
(* backslash.                                                               *)
RECURSIVE JsonEscape(_)
JsonEscape(cs) ==
    IF cs = <<>> THEN <<>>
    ELSE (IF Head(cs) \in {"\"", "\\"} THEN <<"\\", Head(cs)>> ELSE <<Head(cs)>>)
         \o JsonEscape(Tail(cs))
JsonString(cs) == <<"\"">> \o JsonEscape(cs) \o <<"\"">>

RECURSIVE JsonDumps(_)
JsonDumps(val) ==
    CASE val.t = "str" -> JsonString(val.s)
      [] val.t = "int" -> IntChars(val.n)
      [] val.t = "bool" -> IF val.b THEN S_true ELSE S_false
      [] val.t = "null" -> S_null
      [] val.t = "list" ->
            <<"[">> \o Join([i \in 1..Len(val.xs) |-> JsonDumps(val.xs[i])], <<",", " ">>)
            \o <<"]">>
      [] val.t = "dict" ->
            <<"{">> \o Join([i \in 1..Len(val.es) |->
                               JsonString(val.es[i].k) \o <<":", " ">> \o JsonDumps(val.es[i].v)],
                            <<",", " ">>)
            \o <<"}">>

(* json.dumps raises TypeError on a value that holds a Fence, a ListItem or *)
(* a KV.                                                                    *)
RECURSIVE JsonSerializable(_)
JsonSerializable(val) ==
    CASE val.t = "list" -> \A i \in 1..Len(val.xs) : JsonSerializable(val.xs[i])
      [] val.t = "dict" -> \A i \in 1..Len(val.es) : JsonSerializable(val.es[i].v)
      [] OTHER -> val.t \in {"str", "int", "bool", "null"}

-----------------------------------------------------------------------------
(* interpolator.py.  Every operation returns [v, err]: the value and the    *)
(* code of the FacetError raised ("" for none).                             *)

Ok(v) == [v |-> v, err |-> ""]
Raise(code) == [v |-> Null, err |-> code]

(* _get_path(env, path) of interpolator.py *)
RECURSIVE WalkPath(_, _, _)
WalkPath(cur, parts, code) ==
    IF parts = <<>> THEN Ok(cur)
    ELSE IF cur.t = "dict" /\ Has(cur, Head(parts))
         THEN WalkPath(Get(cur, Head(parts)), Tail(parts), code)
         ELSE Raise(code)

InterpGetPath(scope, path) == WalkPath(scope, Split(path, "."), "F402A")

RECURSIVE InterpolateFrom(_, _, _, _)
InterpolateFrom(text, i, scope, acc) ==
    IF i > Len(text) THEN Ok(StrV(acc))
    ELSE IF StartsWithAt(text, <<"\\", "{", "{">>, i)
    THEN InterpolateFrom(text, i + 3, scope, acc \o <<"{", "{">>)
    ELSE IF StartsWithAt(text, <<"\\", "}", "}">>, i)
    THEN InterpolateFrom(text, i + 3, scope, acc \o <<"}", "}">>)
    ELSE IF StartsWithAt(text, <<"{", "{">>, i)
    THEN LET j == Find(text, <<"}", "}">>, i + 2)
             key == Strip(SubSeq(text, i + 2, j - 1))
             val == InterpGetPath(scope, key)
         IN  IF j = 0 THEN Raise("F402B")
             ELSE IF key = <<>> THEN Raise("F402B")
             ELSE IF val.err # "" THEN val
             ELSE IF ~JsonSerializable(val.v) THEN Raise("TypeError")
             ELSE InterpolateFrom(text, j + 2, scope,
                     acc \o (IF val.v.t = "str" THEN val.v.s ELSE JsonDumps(val.v)))
    ELSE InterpolateFrom(text, i + 1, scope, Append(acc, text[i]))

interpolate_string(text, scope) == InterpolateFrom(text, 1, scope, <<>>)

substitute_scalar(value, scope) ==
    IF value.t = "str"
    THEN IF StartsWith(value.s, <<"$", "{">>) /\ EndsWith(value.s, <<"}">>)
         THEN InterpGetPath(scope, Strip(SubSeq(value.s, 3, Len(value.s) - 1)))
         ELSE IF StartsWith(value.s, <<"$">>) /\ Len(value.s) > 1
         THEN InterpGetPath(scope, Tail(value.s))
         ELSE Ok(value)
    ELSE Ok(value)

-----------------------------------------------------------------------------
(* ast.py *)

Fence(cs) == [t |-> "Fence", value |-> cs]
LensCall(name, args, kwargs) == [name |-> name, args |-> args, kwargs |-> kwargs]
KV(key, value, lenses) == [t |-> "KV", key |-> key, value |-> value, lenses |-> lenses]
ListItem(value, item_if, lenses) ==
    [t |-> "ListItem", value |-> value, item_if |-> item_if, lenses |-> lenses]
Facet(name, attrs, body) == [name |-> name, attrs |-> attrs, body |-> body]

-----------------------------------------------------------------------------
(* parser.py, on the document as written.  A written document is the        *)
(* sequence of its facets; a written facet is its name, its header anchor   *)
(* (<<>> for none), its attribute list and its entries.  Written entries:   *)
(*   WKV        key: value |> lenses                                        *)
(*   WBlock     key: NEWLINE INDENT entries DEDENT                          *)
(*   WFenceKV   key: NEWLINE INDENT FENCE |> lenses NEWLINE DEDENT          *)
(*   WItem      - value (if="...") |> lenses                                *)
(* Written values are the scalar, inline-map, inline-list and Fence values  *)
(* themselves, and WAmp for "&name value" and WStar for "*name".            *)

WAmp(name, w) == [t |-> "w&", name |-> name, value |-> w]
WStar(name) == [t |-> "w*", name |-> name]
WKV(key, w, lenses) == [e |-> "kv", key |-> key, value |-> w, lenses |-> lenses]
WBlock(key, entries) == [e |-> "block", key |-> key, entries |-> entries]
WFenceKV(key, fence, lenses) == [e |-> "fencekv", key |-> key, value |-> fence, lenses |-> lenses]
WItem(w, item_if, lenses) == [e |-> "item", value |-> w, item_if |-> item_if, lenses |-> lenses]
WAttr(k, tok, v) == [k |-> k, tok |-> tok, v |-> v]
WFacet(name, anchor, attrs, entries) ==
    [name |-> name, anchor |-> anchor, attrs |-> attrs, entries |-> entries]

RECURSIVE parse_value(_)
RECURSIVE PutAll(_, _)
(* m[key] = parse_value() for each written entry of an inline map *)
PutAll(m, es) ==
    IF es = <<>> THEN m
    ELSE PutAll(Put(m, Head(es).k, parse_value(Head(es).v)), Tail(es))

parse_value(w) ==
    CASE w.t = "w&" -> Dict(<<E(ANCHOR_KEY, StrV(w.name)), E(S_value, parse_value(w.value))>>)
      [] w.t = "w*" -> Dict(<<E(ALIAS_KEY, StrV(w.name))>>)
      [] w.t = "dict" -> PutAll(EmptyDict, w.es)
      [] w.t = "list" -> List([i \in 1..Len(w.xs) |-> parse_value(w.xs[i])])
      [] OTHER -> w

IsListItem(x) == x.t = "ListItem"
IsKV(x) == x.t = "KV"
IsFence(x) == x.t = "Fence"
IsStr(x) == x.t = "str"
All(xs, P(_)) == \A i \in 1..Len(xs) : P(xs[i])

RECURSIVE CollapseMap(_, _)
CollapseMap(items, res) ==
    IF items = <<>> THEN Ok(res)
    ELSE IF IsKV(Head(items))
         THEN CollapseMap(Tail(items), Put(res, Head(items).key, Head(items).value))
         ELSE Raise("F101")

_collapse_block(block_items) ==
    IF block_items = <<>> THEN Ok(EmptyDict)
    ELSE IF All(block_items, IsListItem) THEN Ok(List(block_items))
    ELSE CollapseMap(block_items, EmptyDict)

RECURSIVE parse_block(_)
RECURSIVE ParseEntries(_, _)
ParseEntries(entries, items) ==
    IF entries = <<>> THEN Ok(items)
    ELSE LET w == Head(entries) IN
         IF w.e = "item"
         THEN ParseEntries(Tail(entries),
                           Append(items, ListItem(parse_value(w.value), w.item_if, w.lenses)))
         ELSE IF w.e = "block"
         THEN LET nested == parse_block(w.entries)
                  col == _collapse_block(nested.v)
              IN  IF nested.err # "" THEN nested
                  ELSE IF col.err # "" THEN col
                  ELSE ParseEntries(Tail(entries), Append(items, KV(w.key, col.v, <<>>)))
         ELSE IF w.e = "fencekv"
         THEN ParseEntries(Tail(entries), Append(items, KV(w.key, w.value, w.lenses)))
         ELSE ParseEntries(Tail(entries),
                           Append(items, KV(w.key, parse_value(w.value), w.lenses)))

parse_block(entries) == ParseEntries(entries, <<>>)

(* the value of an attribute, from its token *)
(* int(s); the NUMBER tokens of the model hold no ".", "e" or "E" *)
_num(s) == IF Head(s) = "-" THEN IntV(0 - DigitsValue(Tail(s), 0)) ELSE IntV(DigitsValue(s, 0))

(* a written attribute holds the kind and the value of the token after "=" *)
parse_attr_value(a) ==
    CASE a.tok \in {"STRING", "IDENT"} -> Ok(a.v)
      [] a.tok = "NUMBER" -> Ok(_num(a.v.s))
      [] a.tok = "BOOLEAN" -> Ok(BoolV(a.v.s = S_true))
      [] a.tok = "NULL" -> Ok(Null)
      [] OTHER -> Raise("F301")

AttrInterpolates_braces(val) == IsStr(val) /\ Contains(val.s, <<"{", "{">>)

(* isinstance(val, str) and ("{{" in val or val.startswith("$") or val.startswith("${")) *)
AttrInterpolates(val) ==
    IsStr(val) /\ (Contains(val.s, <<"{", "{">>) \/ StartsWith(val.s, <<"$">>)
                   \/ StartsWith(val.s, <<"$", "{">>))

RECURSIVE parse_attrs(_, _)
parse_attrs(was, attrs) ==
    IF was = <<>> THEN Ok(attrs)
    ELSE IF parse_attr_value(Head(was)).err # "" THEN parse_attr_value(Head(was))
    ELSE IF AttrInterpolates(parse_attr_value(Head(was)).v) THEN Raise("F304")
    ELSE parse_attrs(Tail(was), Put(attrs, Head(was).k, parse_attr_value(Head(was)).v))

(* if anchor_name: attrs["&"] = anchor_name *)
HeaderAnchor(attrs, anchor_name) ==
    IF anchor_name # <<>> THEN Put(attrs, ANCHOR_KEY, StrV(anchor_name)) ELSE attrs

parse_facet(wf) ==
    LET attrs == parse_attrs(wf.attrs, EmptyDict)
        body == parse_block(wf.entries)
    IN  IF attrs.err # "" THEN attrs
        ELSE IF wf.name = S_import THEN Ok(Facet(wf.name, attrs.v, <<>>))
        ELSE IF body.err # "" THEN body
        ELSE Ok(Facet(wf.name, HeaderAnchor(attrs.v, wf.anchor), body.v))

RECURSIVE ParseFacets(_, _)
ParseFacets(wfs, acc) ==
    IF wfs = <<>> THEN Ok(acc)
    ELSE LET f == parse_facet(Head(wfs))
         IN  IF f.err # "" THEN f ELSE ParseFacets(Tail(wfs), Append(acc, f.v))

(* parse(lex(text)) *)
parse(text) == ParseFacets(text, <<>>)

-----------------------------------------------------------------------------
(* Python truthiness and equality *)

Truthy(v) ==
    CASE v.t = "bool" -> v.b
      [] v.t = "int" -> v.n # 0
      [] v.t = "null" -> FALSE
      [] v.t = "str" -> v.s # <<>>
      [] v.t = "list" -> v.xs # <<>>
      [] v.t = "dict" -> v.es # <<>>
      [] OTHER -> TRUE

IsNumber(v) == v.t \in {"int", "bool"}
NumOf(v) == IF v.t = "bool" THEN (IF v.b THEN 1 ELSE 0) ELSE v.n
PyEq(a, b) == IF IsNumber(a) /\ IsNumber(b) THEN NumOf(a) = NumOf(b) ELSE a = b

-----------------------------------------------------------------------------
(* expr.py: the tokenizer, the recursive-descent parser and the evaluator   *)
(* of if-expressions.  A float literal is outside the model: an expression  *)
(* that holds one is "unmodelled".                                          *)

WordChar == Lower \cup Upper \cup Digit \cup {"_"}
NameChars == WordChar \cup {"."}
DQuote == "\""
SQuote == "'"
Backslash == "\\"

(* \b between the positions i - 1 and i *)
Boundary(s, i) ==
    (i > 1 /\ s[i - 1] \in WordChar) # (i <= Len(s) /\ s[i] \in WordChar)

(* \bword\b at position i *)
WordAt(s, word, i) ==
    StartsWithAt(s, word, i) /\ Boundary(s, i) /\ Boundary(s, i + Len(word))

(* (?:[^q\\]|\\.)*q from position j: the position of the closing quote, 0   *)
(* when there is none                                                       *)
RECURSIVE QuoteEnd(_, _, _)
QuoteEnd(s, q, j) ==
    IF j > Len(s) THEN 0
    ELSE IF s[j] = q THEN j
    ELSE IF s[j] = Backslash
    THEN (IF j + 1 > Len(s) \/ s[j + 1] = "\n" THEN 0 ELSE QuoteEnd(s, q, j + 2))
    ELSE QuoteEnd(s, q, j + 1)

(* [^\s()]+ from position i: the last position of the run *)
RECURSIVE RunEnd(_, _)
RunEnd(s, i) ==
    IF i + 1 <= Len(s) /\ s[i + 1] \notin Space \cup {"(", ")"} THEN RunEnd(s, i + 1) ELSE i

CmpOps2 == {<<"=", "=">>, <<"!", "=">>, <<"<", "=">>, <<">", "=">>}
S_in == <<"i", "n">>
S_and == <<"a", "n", "d">>
S_or == <<"o", "r">>
S_not == <<"n", "o", "t">>

(* the alternatives of the token pattern tried in order at position i: the  *)
(* last position of the match, 0 when none matches                          *)
TokenEnd(s, i) ==
    IF s[i] = DQuote /\ QuoteEnd(s, DQuote, i + 1) # 0 THEN QuoteEnd(s, DQuote, i + 1)
    ELSE IF s[i] = SQuote /\ QuoteEnd(s, SQuote, i + 1) # 0 THEN QuoteEnd(s, SQuote, i + 1)
    ELSE IF \E op \in CmpOps2 : StartsWithAt(s, op, i) THEN i + 1
    ELSE IF WordAt(s, S_in, i) THEN i + 1
    ELSE IF s[i] \in {"(", ")", "<", ">"} THEN i
    ELSE IF WordAt(s, S_and, i) THEN i + 2
    ELSE IF WordAt(s, S_or, i) THEN i + 1
    ELSE IF WordAt(s, S_not, i) THEN i + 2
    ELSE IF s[i] \notin Space \cup {"(", ")"} THEN RunEnd(s, i)
    ELSE 0

(* re.findall(pattern, s) from position i *)
RECURSIVE FindAll(_, _)
FindAll(s, i) ==
    IF i > Len(s) THEN <<>>
    ELSE IF TokenEnd(s, i) = 0 THEN FindAll(s, i + 1)
    ELSE <<SubSeq(s, i, TokenEnd(s, i))>> \o FindAll(s, TokenEnd(s, i) + 1)

(* _get(env, path) *)
ExprGet(scope, path) == WalkPath(scope, Split(path, "."), "F702")

(* s.replace(old, new) *)
RECURSIVE Replace(_, _, _)
Replace(s, old, new) ==
    IF s = <<>> THEN <<>>
    ELSE IF StartsWithAt(s, old, 1)
    THEN new \o Replace(SubSeq(s, Len(old) + 1, Len(s)), old, new)
    ELSE <<Head(s)>> \o Replace(Tail(s), old, new)

(* tok[0].isdigit() or (tok[0] in '+-' and len(tok) > 1 and tok[1].isdigit()) *)
NumberLike(tok) ==
    /\ tok # <<>>
    /\ \/ tok[1] \in Digit
       \/ tok[1] \in {"+", "-"} /\ Len(tok) > 1 /\ tok[2] \in Digit
Unsigned(tok) == IF tok[1] \in {"+", "-"} THEN Tail(tok) ELSE tok
IsQuoted(tok) ==
    /\ tok # <<>>
    /\ \/ tok[1] = DQuote /\ tok[Len(tok)] = DQuote
       \/ tok[1] = SQuote /\ tok[Len(tok)] = SQuote

(* a number-like token that int() does not settle: a float, or digits with *)
(* underscores                                                              *)
Unmodelled(tok) ==
    /\ NumberLike(tok)
    /\ \E i \in 1..Len(tok) : tok[i] \in {".", "e", "E", "_"}

(* _parse_literal(tok): None when tok is no literal, and None for the       *)
(* literal null as well                                                     *)
_parse_literal(tok) ==
    IF tok = S_true THEN BoolV(TRUE)
    ELSE IF tok = S_false THEN BoolV(FALSE)
    ELSE IF tok = S_null THEN Null
    ELSE IF NumberLike(tok) /\ \A i \in 1..Len(Unsigned(tok)) : Unsigned(tok)[i] \in Digit
    THEN IntV(IF tok[1] = "-" THEN 0 - DigitsValue(Unsigned(tok), 0)
              ELSE DigitsValue(Unsigned(tok), 0))
    ELSE IF IsQuoted(tok)
    THEN StrV(Replace(Replace(Replace(SubSeq(tok, 2, Len(tok) - 1),
                                      <<Backslash, DQuote>>, <<DQuote>>),
                              <<Backslash, SQuote>>, <<SQuote>>),
                      <<Backslash, Backslash>>, <<Backslash>>))
    ELSE Null

(* _cmp(a, op, b) *)
_cmp(a, op, b) ==
    IF op = <<"=", "=">> THEN Ok(BoolV(PyEq(a, b)))
    ELSE IF op = <<"!", "=">> THEN Ok(BoolV(~PyEq(a, b)))
    ELSE IF op \in {<<"<">>, <<"<", "=">>, <<">">>, <<">", "=">>}
    THEN IF ~(IsNumber(a) /\ IsNumber(b)) THEN Raise("F703")
         ELSE IF op = <<"<">> THEN Ok(BoolV(NumOf(a) < NumOf(b)))
         ELSE IF op = <<"<", "=">> THEN Ok(BoolV(NumOf(a) <= NumOf(b)))
         ELSE IF op = <<">">> THEN Ok(BoolV(NumOf(a) > NumOf(b)))
         ELSE Ok(BoolV(NumOf(a) >= NumOf(b)))
    ELSE IF op = S_in
    THEN IF b.t = "list" THEN Ok(BoolV(\E i \in 1..Len(b.xs) : PyEq(a, b.xs[i])))
         ELSE IF b.t = "str"
         THEN (IF a.t # "str" THEN Raise("TypeError")
               ELSE Ok(BoolV(a.s = <<>> \/ Contains(b.s, a.s))))
         ELSE Raise("F703")
    ELSE Raise("F701")

(* peek(): the empty token stands for None *)
PeekTok(toks, pos) == IF pos <= Len(toks) THEN toks[pos] ELSE <<>>

(* what a parse function hands back: its value and the position reached *)
Parsed(v, pos) == [v |-> v, err |-> "", pos |-> pos]
Failed(code) == [v |-> Null, err |-> code, pos |-> 0]

RECURSIVE parse_primary(_, _, _)
RECURSIVE parse_cmp(_, _, _)
RECURSIVE parse_and(_, _, _)
RECURSIVE parse_or(_, _, _)
RECURSIVE AndLoop(_, _, _)
RECURSIVE OrLoop(_, _, _)

Closing(toks, r) ==
    IF r.err # "" THEN r
    ELSE IF PeekTok(toks, r.pos) # <<")">> THEN Failed("F701")
    ELSE Parsed(r.v, r.pos + 1)
Negated(r) == IF r.err # "" THEN r ELSE Parsed(BoolV(~Truthy(r.v)), r.pos)
Looked(r, pos) == IF r.err # "" THEN Failed(r.err) ELSE Parsed(r.v, pos)

parse_primary(toks, pos, scope) ==
    IF PeekTok(toks, pos) = <<"(">> THEN Closing(toks, parse_or(toks, pos + 1, scope))
    ELSE IF PeekTok(toks, pos) = S_not THEN Negated(parse_primary(toks, pos + 1, scope))
    ELSE IF Unmodelled(PeekTok(toks, pos)) THEN Failed("unmodelled")
    ELSE IF _parse_literal(PeekTok(toks, pos)) # Null
    THEN Parsed(_parse_literal(PeekTok(toks, pos)), pos + 1)
    ELSE IF PeekTok(toks, pos) = <<>> THEN Failed("AttributeError")
    ELSE Looked(ExprGet(scope, PeekTok(toks, pos)), pos + 1)

CmpOps == CmpOps2 \cup {<<"<">>, <<">">>, S_in}

Compared(left, op, right) ==
    IF right.err # "" THEN right ELSE Looked(_cmp(left.v, op, right.v), right.pos)
AfterLeft(toks, left, scope) ==
    IF left.err # "" THEN left
    ELSE IF PeekTok(toks, left.pos) \in CmpOps
    THEN Compared(left, PeekTok(toks, left.pos), parse_primary(toks, left.pos + 1, scope))
    ELSE Parsed(BoolV(Truthy(left.v)), left.pos)

parse_cmp(toks, pos, scope) == AfterLeft(toks, parse_primary(toks, pos, scope), scope)

AsBool(r) == IF r.err # "" THEN r ELSE Parsed(BoolV(Truthy(r.v)), r.pos)

(* while peek() == 'and': eat('and'); val = bool(val) and bool(parse_cmp()) *)
AndLoop(toks, r, scope) ==
    IF r.err # "" THEN r
    ELSE IF PeekTok(toks, r.pos) # S_and THEN r
    ELSE IF Truthy(r.v) THEN AndLoop(toks, AsBool(parse_cmp(toks, r.pos + 1, scope)), scope)
    ELSE AndLoop(toks, Parsed(BoolV(FALSE), r.pos + 1), scope)

parse_and(toks, pos, scope) == AndLoop(toks, parse_cmp(toks, pos, scope), scope)

(* while peek() == 'or': eat('or'); val = bool(val) or bool(parse_and()) *)
OrLoop(toks, r, scope) ==
    IF r.err # "" THEN r
    ELSE IF PeekTok(toks, r.pos) # S_or THEN r
    ELSE IF Truthy(r.v) THEN OrLoop(toks, Parsed(BoolV(TRUE), r.pos + 1), scope)
    ELSE OrLoop(toks, AsBool(parse_and(toks, r.pos + 1, scope)), scope)

parse_or(toks, pos, scope) == OrLoop(toks, parse_and(toks, pos, scope), scope)

(* result = parse_or(); if pos != len(tokens): F701; return bool(result) *)
Finished(toks, r) ==
    IF r.err # "" THEN Raise(r.err)
    ELSE IF r.pos # Len(toks) + 1 THEN Raise("F701")
    ELSE Ok(BoolV(Truthy(r.v)))

OfTokens(toks, scope) ==
    IF toks = <<>> THEN Ok(BoolV(TRUE)) ELSE Finished(toks, parse_or(toks, 1, scope))

eval_if(expr, scope) ==
    IF Strip(expr) = <<>> THEN Ok(BoolV(TRUE))
    ELSE OfTokens(FindAll(Strip(expr), 1), scope)

-----------------------------------------------------------------------------
(* lenses.py: apply_pipeline with the lenses trim, lower and upper *)

MAX_LENS_CHAIN == 3

LowerSeq == <<"a", "b", "c", "d", "e", "f", "g", "h", "i", "j", "k", "l", "m",
              "n", "o", "p", "q", "r", "s", "t", "u", "v", "w", "x", "y", "z">>
UpperSeq == <<"A", "B", "C", "D", "E", "F", "G", "H", "I", "J", "K", "L", "M",
              "N", "O", "P", "Q", "R", "S", "T", "U", "V", "W", "X", "Y", "Z">>
UpperChar(c) == IF c \in Lower THEN UpperSeq[CHOOSE i \in 1..26 : LowerSeq[i] = c] ELSE c
LowerChar(c) == IF c \in Upper THEN LowerSeq[CHOOSE i \in 1..26 : UpperSeq[i] = c] ELSE c

S_trim == <<"t", "r", "i", "m">>
S_upper == <<"u", "p", "p", "e", "r">>
S_lower == <<"l", "o", "w", "e", "r">>

trim(x) == IF IsStr(x) THEN Ok(StrV(Strip(x.s))) ELSE Ok(x)
upper(x) == IF ~IsStr(x) THEN Raise("F102")
            ELSE Ok(StrV([i \in 1..Len(x.s) |-> UpperChar(x.s[i])]))
lower(x) == IF ~IsStr(x) THEN Raise("F102")
            ELSE Ok(StrV([i \in 1..Len(x.s) |-> LowerChar(x.s[i])]))

(* lenses.py: the seeded lenses choose and shuffle.  The 64-bit key is kept *)
(* as its eight bytes, most significant first.  blake2b and the generator   *)
(* of random.Random are library code: Blake2b8 and MTDraws hold what they   *)
(* return for the data the model hashes.                                    *)

S_choose == <<"c", "h", "o", "o", "s", "e">>
S_shuffle == <<"s", "h", "u", "f", "f", "l", "e">>
S_seed == <<"s", "e", "e", "d">>
UnitSep == "US"

(* str(seed) *)
PyStr(v) ==
    CASE v.t = "str" -> v.s
      [] v.t = "int" -> IntChars(v.n)
      [] v.t = "bool" -> IF v.b THEN <<"T", "r", "u", "e">> ELSE <<"F", "a", "l", "s", "e">>
      [] OTHER -> <<"N", "o", "n", "e">>

(* json.dumps(value, ensure_ascii=False, separators=(",", ":"),            *)
(* sort_keys=True); the values the model hands to a seeded lens hold no map *)
RECURSIVE _canonical_bytes(_)
_canonical_bytes(value) ==
    CASE value.t = "str" -> JsonString(value.s)
      [] value.t = "int" -> IntChars(value.n)
      [] value.t = "bool" -> IF value.b THEN S_true ELSE S_false
      [] value.t = "null" -> S_null
      [] value.t = "list" ->
            <<"[">> \o Join([i \in 1..Len(value.xs) |-> _canonical_bytes(value.xs[i])], <<",">>)
            \o <<"]">>

(* blake2b(data, digest_size=16).digest()[:8] *)
Blake2b8 ==
    <<"4", "2", UnitSep, "[", "]">> :> <<84, 165, 113, 118, 108, 91, 234, 32>>
    @@ <<"4", "2", UnitSep, "[", "\"", "a", "\"", "]">> :> <<42, 102, 72, 66, 8, 164, 127, 221>>
    @@ <<"4", "2", UnitSep, "[", "\"", "b", "\"", "]">> :> <<156, 129, 45, 179, 217, 69, 127, 220>>
    @@ <<"4", "2", UnitSep, "[", "\"", "a", "\"", ",", "\"", "a", "\"", "]">> :> <<121, 181, 226, 158, 234, 168, 69, 198>>
    @@ <<"4", "2", UnitSep, "[", "\"", "a", "\"", ",", "\"", "b", "\"", "]">> :> <<188, 57, 113, 73, 247, 126, 197, 50>>
    @@ <<"4", "2", UnitSep, "[", "\"", "b", "\"", ",", "\"", "a", "\"", "]">> :> <<102, 193, 24, 131, 185, 247, 18, 207>>
    @@ <<"4", "2", UnitSep, "[", "\"", "b", "\"", ",", "\"", "b", "\"", "]">> :> <<93, 59, 94, 83, 192, 36, 65, 149>>
    @@ <<"4", "2", UnitSep, "[", "\"", "a", "\"", ",", "\"", "a", "\"", ",", "\"", "a", "\"", "]">> :> <<252, 32, 11, 254, 165, 172, 116, 208>>
    @@ <<"4", "2", UnitSep, "[", "\"", "a", "\"", ",", "\"", "a", "\"", ",", "\"", "b", "\"", "]">> :> <<34, 166, 91, 167, 88, 123, 204, 249>>
    @@ <<"4", "2", UnitSep, "[", "\"", "a", "\"", ",", "\"", "b", "\"", ",", "\"", "a", "\"", "]">> :> <<68, 188, 59, 128, 171, 151, 206, 245>>
    @@ <<"4", "2", UnitSep, "[", "\"", "a", "\"", ",", "\"", "b", "\"", ",", "\"", "b", "\"", "]">> :> <<158, 82, 253, 1, 239, 119, 214, 173>>
    @@ <<"4", "2", UnitSep, "[", "\"", "b", "\"", ",", "\"", "a", "\"", ",", "\"", "a", "\"", "]">> :> <<193, 147, 241, 157, 60, 139, 57, 173>>
    @@ <<"4", "2", UnitSep, "[", "\"", "b", "\"", ",", "\"", "a", "\"", ",", "\"", "b", "\"", "]">> :> <<189, 141, 152, 70, 15, 85, 171, 97>>
    @@ <<"4", "2", UnitSep, "[", "\"", "b", "\"", ",", "\"", "b", "\"", ",", "\"", "a", "\"", "]">> :> <<55, 95, 76, 168, 164, 176, 211, 175>>
    @@ <<"4", "2", UnitSep, "[", "\"", "b", "\"", ",", "\"", "b", "\"", ",", "\"", "b", "\"", "]">> :> <<20, 125, 13, 31, 114, 131, 44, 147>>
    @@ <<"4", "2", UnitSep, "[", "\"", "a", "\"", ",", "\"", "a", "\"", ",", "\"", "a", "\"", ",", "\"", "a", "\"", "]">> :> <<85, 202, 160, 16, 240, 66, 22, 15>>
    @@ <<"4", "2", UnitSep, "[", "\"", "a", "\"", ",", "\"", "a", "\"", ",", "\"", "a", "\"", ",", "\"", "b", "\"", "]">> :> <<15, 8, 0, 0, 128, 220, 56, 216>>
    @@ <<"4", "2", UnitSep, "[", "\"", "a", "\"", ",", "\"", "a", "\"", ",", "\"", "b", "\"", ",", "\"", "a", "\"", "]">> :> <<250, 50, 112, 159, 227, 70, 141, 241>>
    @@ <<"4", "2", UnitSep, "[", "\"", "a", "\"", ",", "\"", "a", "\"", ",", "\"", "b", "\"", ",", "\"", "b", "\"", "]">> :> <<39, 40, 254, 34, 49, 88, 134, 84>>
    @@ <<"4", "2", UnitSep, "[", "\"", "a", "\"", ",", "\"", "b", "\"", ",", "\"", "a", "\"", ",", "\"", "a", "\"", "]">> :> <<255, 76, 87, 130, 62, 222, 42, 120>>
    @@ <<"4", "2", UnitSep, "[", "\"", "a", "\"", ",", "\"", "b", "\"", ",", "\"", "a", "\"", ",", "\"", "b", "\"", "]">> :> <<18, 15, 168, 48, 86, 71, 18, 97>>
    @@ <<"4", "2", UnitSep, "[", "\"", "a", "\"", ",", "\"", "b", "\"", ",", "\"", "b", "\"", ",", "\"", "a", "\"", "]">> :> <<212, 60, 97, 89, 29, 137, 64, 57>>
    @@ <<"4", "2", UnitSep, "[", "\"", "a", "\"", ",", "\"", "b", "\"", ",", "\"", "b", "\"", ",", "\"", "b", "\"", "]">> :> <<126, 61, 154, 231, 13, 85, 241, 84>>
    @@ <<"4", "2", UnitSep, "[", "\"", "b", "\"", ",", "\"", "a", "\"", ",", "\"", "a", "\"", ",", "\"", "a", "\"", "]">> :> <<54, 172, 76, 78, 24, 155, 112, 113>>
    @@ <<"4", "2", UnitSep, "[", "\"", "b", "\"", ",", "\"", "a", "\"", ",", "\"", "a", "\"", ",", "\"", "b", "\"", "]">> :> <<178, 237, 213, 104, 143, 22, 74, 4>>
    @@ <<"4", "2", UnitSep, "[", "\"", "b", "\"", ",", "\"", "a", "\"", ",", "\"", "b", "\"", ",", "\"", "a", "\"", "]">> :> <<76, 253, 62, 52, 96, 243, 89, 96>>
    @@ <<"4", "2", UnitSep, "[", "\"", "b", "\"", ",", "\"", "a", "\"", ",", "\"", "b", "\"", ",", "\"", "b", "\"", "]">> :> <<244, 47, 117, 21, 109, 168, 22, 158>>
    @@ <<"4", "2", UnitSep, "[", "\"", "b", "\"", ",", "\"", "b", "\"", ",", "\"", "a", "\"", ",", "\"", "a", "\"", "]">> :> <<64, 65, 144, 169, 13, 170, 231, 118>>
    @@ <<"4", "2", UnitSep, "[", "\"", "b", "\"", ",", "\"", "b", "\"", ",", "\"", "a", "\"", ",", "\"", "b", "\"", "]">> :> <<65, 57, 175, 51, 199, 167, 211, 194>>
    @@ <<"4", "2", UnitSep, "[", "\"", "b", "\"", ",", "\"", "b", "\"", ",", "\"", "b", "\"", ",", "\"", "a", "\"", "]">> :> <<220, 132, 169, 41, 26, 230, 195, 176>>
    @@ <<"4", "2", UnitSep, "[", "\"", "b", "\"", ",", "\"", "b", "\"", ",", "\"", "b", "\"", ",", "\"", "b", "\"", "]">> :> <<168, 3, 254, 5, 89, 154, 213, 12>>
    @@ <<"4", "2", UnitSep, "[", "\"", "a", "\"", ",", "\"", "b", "\"", ",", "\"", "c", "\"", "]">> :> <<110, 1, 145, 98, 99, 100, 18, 42>>
    @@ <<"4", "2", UnitSep, "[", "\"", "a", "\"", ",", "\"", "c", "\"", ",", "\"", "b", "\"", "]">> :> <<149, 78, 120, 143, 169, 176, 174, 225>>
    @@ <<"4", "2", UnitSep, "[", "\"", "b", "\"", ",", "\"", "a", "\"", ",", "\"", "c", "\"", "]">> :> <<46, 43, 73, 253, 247, 60, 126, 209>>
    @@ <<"4", "2", UnitSep, "[", "\"", "b", "\"", ",", "\"", "c", "\"", ",", "\"", "a", "\"", "]">> :> <<70, 154, 187, 12, 62, 220, 197, 219>>
    @@ <<"4", "2", UnitSep, "[", "\"", "c", "\"", ",", "\"", "a", "\"", ",", "\"", "b", "\"", "]">> :> <<63, 109, 202, 17, 152, 2, 9, 253>>
    @@ <<"4", "2", UnitSep, "[", "\"", "c", "\"", ",", "\"", "b", "\"", ",", "\"", "a", "\"", "]">> :> <<8, 220, 58, 137, 63, 24, 240, 119>>
    @@ <<"s", UnitSep, "[", "]">> :> <<134, 146, 75, 117, 27, 208, 179, 98>>
    @@ <<"s", UnitSep, "[", "\"", "a", "\"", "]">> :> <<35, 183, 254, 86, 65, 129, 242, 171>>
    @@ <<"s", UnitSep, "[", "\"", "b", "\"", "]">> :> <<26, 89, 126, 90, 233, 3, 9, 20>>
    @@ <<"s", UnitSep, "[", "\"", "a", "\"", ",", "\"", "a", "\"", "]">> :> <<166, 186, 29, 87, 66, 82, 11, 42>>
    @@ <<"s", UnitSep, "[", "\"", "a", "\"", ",", "\"", "b", "\"", "]">> :> <<228, 88, 165, 94, 91, 187, 229, 179>>
    @@ <<"s", UnitSep, "[", "\"", "b", "\"", ",", "\"", "a", "\"", "]">> :> <<124, 95, 178, 217, 239, 10, 196, 138>>
    @@ <<"s", UnitSep, "[", "\"", "b", "\"", ",", "\"", "b", "\"", "]">> :> <<3, 24, 79, 184, 168, 132, 0, 24>>
    @@ <<"s", UnitSep, "[", "\"", "a", "\"", ",", "\"", "a", "\"", ",", "\"", "a", "\"", "]">> :> <<59, 179, 12, 124, 222, 103, 62, 20>>
    @@ <<"s", UnitSep, "[", "\"", "a", "\"", ",", "\"", "a", "\"", ",", "\"", "b", "\"", "]">> :> <<29, 116, 105, 206, 179, 200, 251, 182>>
    @@ <<"s", UnitSep, "[", "\"", "a", "\"", ",", "\"", "b", "\"", ",", "\"", "a", "\"", "]">> :> <<127, 208, 172, 161, 199, 124, 134, 249>>
    @@ <<"s", UnitSep, "[", "\"", "a", "\"", ",", "\"", "b", "\"", ",", "\"", "b", "\"", "]">> :> <<192, 205, 211, 64, 117, 13, 198, 255>>
    @@ <<"s", UnitSep, "[", "\"", "b", "\"", ",", "\"", "a", "\"", ",", "\"", "a", "\"", "]">> :> <<109, 64, 142, 71, 202, 143, 204, 167>>
    @@ <<"s", UnitSep, "[", "\"", "b", "\"", ",", "\"", "a", "\"", ",", "\"", "b", "\"", "]">> :> <<169, 15, 2, 172, 40, 65, 6, 41>>
    @@ <<"s", UnitSep, "[", "\"", "b", "\"", ",", "\"", "b", "\"", ",", "\"", "a", "\"", "]">> :> <<156, 205, 186, 133, 193, 14, 184, 158>>
    @@ <<"s", UnitSep, "[", "\"", "b", "\"", ",", "\"", "b", "\"", ",", "\"", "b", "\"", "]">> :> <<141, 142, 148, 252, 25, 177, 66, 47>>
    @@ <<"s", UnitSep, "[", "\"", "a", "\"", ",", "\"", "a", "\"", ",", "\"", "a", "\"", ",", "\"", "a", "\"", "]">> :> <<105, 63, 118, 219, 63, 176, 192, 208>>
    @@ <<"s", UnitSep, "[", "\"", "a", "\"", ",", "\"", "a", "\"", ",", "\"", "a", "\"", ",", "\"", "b", "\"", "]">> :> <<34, 116, 197, 191, 155, 186, 128, 61>>
    @@ <<"s", UnitSep, "[", "\"", "a", "\"", ",", "\"", "a", "\"", ",", "\"", "b", "\"", ",", "\"", "a", "\"", "]">> :> <<160, 128, 170, 48, 2, 249, 118, 54>>
    @@ <<"s", UnitSep, "[", "\"", "a", "\"", ",", "\"", "a", "\"", ",", "\"", "b", "\"", ",", "\"", "b", "\"", "]">> :> <<52, 171, 234, 231, 232, 4, 6, 224>>
    @@ <<"s", UnitSep, "[", "\"", "a", "\"", ",", "\"", "b", "\"", ",", "\"", "a", "\"", ",", "\"", "a", "\"", "]">> :> <<187, 48, 160, 28, 253, 30, 99, 17>>
    @@ <<"s", UnitSep, "[", "\"", "a", "\"", ",", "\"", "b", "\"", ",", "\"", "a", "\"", ",", "\"", "b", "\"", "]">> :> <<215, 197, 198, 226, 230, 229, 181, 52>>
    @@ <<"s", UnitSep, "[", "\"", "a", "\"", ",", "\"", "b", "\"", ",", "\"", "b", "\"", ",", "\"", "a", "\"", "]">> :> <<11, 200, 130, 201, 180, 103, 154, 107>>
    @@ <<"s", UnitSep, "[", "\"", "a", "\"", ",", "\"", "b", "\"", ",", "\"", "b", "\"", ",", "\"", "b", "\"", "]">> :> <<32, 144, 96, 50, 151, 184, 240, 132>>
    @@ <<"s", UnitSep, "[", "\"", "b", "\"", ",", "\"", "a", "\"", ",", "\"", "a", "\"", ",", "\"", "a", "\"", "]">> :> <<136, 179, 248, 73, 231, 117, 176, 47>>
    @@ <<"s", UnitSep, "[", "\"", "b", "\"", ",", "\"", "a", "\"", ",", "\"", "a", "\"", ",", "\"", "b", "\"", "]">> :> <<211, 60, 210, 253, 54, 173, 167, 32>>
    @@ <<"s", UnitSep, "[", "\"", "b", "\"", ",", "\"", "a", "\"", ",", "\"", "b", "\"", ",", "\"", "a", "\"", "]">> :> <<16, 116, 13, 163, 10, 9, 231, 86>>
    @@ <<"s", UnitSep, "[", "\"", "b", "\"", ",", "\"", "a", "\"", ",", "\"", "b", "\"", ",", "\"", "b", "\"", "]">> :> <<113, 185, 40, 83, 141, 223, 169, 150>>
    @@ <<"s", UnitSep, "[", "\"", "b", "\"", ",", "\"", "b", "\"", ",", "\"", "a", "\"", ",", "\"", "a", "\"", "]">> :> <<104, 181, 241, 18, 113, 137, 130, 51>>
    @@ <<"s", UnitSep, "[", "\"", "b", "\"", ",", "\"", "b", "\"", ",", "\"", "a", "\"", ",", "\"", "b", "\"", "]">> :> <<3, 32, 121, 227, 80, 146, 46, 31>>
    @@ <<"s", UnitSep, "[", "\"", "b", "\"", ",", "\"", "b", "\"", ",", "\"", "b", "\"", ",", "\"", "a", "\"", "]">> :> <<39, 61, 64, 227, 12, 186, 8, 161>>
    @@ <<"s", UnitSep, "[", "\"", "b", "\"", ",", "\"", "b", "\"", ",", "\"", "b", "\"", ",", "\"", "b", "\"", "]">> :> <<50, 36, 195, 12, 48, 70, 132, 181>>
    @@ <<"s", UnitSep, "[", "\"", "a", "\"", ",", "\"", "b", "\"", ",", "\"", "c", "\"", "]">> :> <<140, 135, 189, 5, 187, 229, 14, 63>>
    @@ <<"s", UnitSep, "[", "\"", "a", "\"", ",", "\"", "c", "\"", ",", "\"", "b", "\"", "]">> :> <<37, 50, 18, 126, 243, 151, 51, 152>>
    @@ <<"s", UnitSep, "[", "\"", "b", "\"", ",", "\"", "a", "\"", ",", "\"", "c", "\"", "]">> :> <<202, 78, 210, 205, 50, 25, 101, 164>>
    @@ <<"s", UnitSep, "[", "\"", "b", "\"", ",", "\"", "c", "\"", ",", "\"", "a", "\"", "]">> :> <<229, 43, 249, 103, 86, 214, 130, 191>>
    @@ <<"s", UnitSep, "[", "\"", "c", "\"", ",", "\"", "a", "\"", ",", "\"", "b", "\"", "]">> :> <<90, 151, 227, 121, 5, 104, 206, 67>>
    @@ <<"s", UnitSep, "[", "\"", "c", "\"", ",", "\"", "b", "\"", ",", "\"", "a", "\"", "]">> :> <<236, 148, 103, 66, 227, 18, 113, 225>>

(* the values of randbelow(i + 1), i = n-1 .. 1, after random.Random(key) *)
MTDraws ==
    <<<<84, 165, 113, 118, 108, 91, 234, 32>>, 0>> :> <<>>
    @@ <<<<42, 102, 72, 66, 8, 164, 127, 221>>, 1>> :> <<>>
    @@ <<<<156, 129, 45, 179, 217, 69, 127, 220>>, 1>> :> <<>>
    @@ <<<<121, 181, 226, 158, 234, 168, 69, 198>>, 2>> :> <<0>>
    @@ <<<<188, 57, 113, 73, 247, 126, 197, 50>>, 2>> :> <<1>>
    @@ <<<<102, 193, 24, 131, 185, 247, 18, 207>>, 2>> :> <<1>>
    @@ <<<<93, 59, 94, 83, 192, 36, 65, 149>>, 2>> :> <<1>>
    @@ <<<<252, 32, 11, 254, 165, 172, 116, 208>>, 3>> :> <<0, 1>>
    @@ <<<<34, 166, 91, 167, 88, 123, 204, 249>>, 3>> :> <<1, 1>>
    @@ <<<<68, 188, 59, 128, 171, 151, 206, 245>>, 3>> :> <<2, 1>>
    @@ <<<<158, 82, 253, 1, 239, 119, 214, 173>>, 3>> :> <<0, 0>>
    @@ <<<<193, 147, 241, 157, 60, 139, 57, 173>>, 3>> :> <<0, 0>>
    @@ <<<<189, 141, 152, 70, 15, 85, 171, 97>>, 3>> :> <<0, 0>>
    @@ <<<<55, 95, 76, 168, 164, 176, 211, 175>>, 3>> :> <<2, 0>>
    @@ <<<<20, 125, 13, 31, 114, 131, 44, 147>>, 3>> :> <<2, 1>>
    @@ <<<<85, 202, 160, 16, 240, 66, 22, 15>>, 4>> :> <<1, 0, 1>>
    @@ <<<<15, 8, 0, 0, 128, 220, 56, 216>>, 4>> :> <<0, 2, 1>>
    @@ <<<<250, 50, 112, 159, 227, 70, 141, 241>>, 4>> :> <<0, 0, 0>>
    @@ <<<<39, 40, 254, 34, 49, 88, 134, 84>>, 4>> :> <<0, 1, 1>>
    @@ <<<<255, 76, 87, 130, 62, 222, 42, 120>>, 4>> :> <<0, 0, 1>>
    @@ <<<<18, 15, 168, 48, 86, 71, 18, 97>>, 4>> :> <<2, 2, 0>>
    @@ <<<<212, 60, 97, 89, 29, 137, 64, 57>>, 4>> :> <<0, 2, 1>>
    @@ <<<<126, 61, 154, 231, 13, 85, 241, 84>>, 4>> :> <<3, 1, 1>>
    @@ <<<<54, 172, 76, 78, 24, 155, 112, 113>>, 4>> :> <<0, 0, 0>>
    @@ <<<<178, 237, 213, 104, 143, 22, 74, 4>>, 4>> :> <<3, 1, 1>>
    @@ <<<<76, 253, 62, 52, 96, 243, 89, 96>>, 4>> :> <<3, 2, 0>>
    @@ <<<<244, 47, 117, 21, 109, 168, 22, 158>>, 4>> :> <<2, 2, 1>>
    @@ <<<<64, 65, 144, 169, 13, 170, 231, 118>>, 4>> :> <<0, 1, 1>>
    @@ <<<<65, 57, 175, 51, 199, 167, 211, 194>>, 4>> :> <<2, 2, 1>>
    @@ <<<<220, 132, 169, 41, 26, 230, 195, 176>>, 4>> :> <<3, 2, 1>>
    @@ <<<<168, 3, 254, 5, 89, 154, 213, 12>>, 4>> :> <<0, 1, 1>>
    @@ <<<<110, 1, 145, 98, 99, 100, 18, 42>>, 3>> :> <<1, 1>>
    @@ <<<<149, 78, 120, 143, 169, 176, 174, 225>>, 3>> :> <<2, 0>>
    @@ <<<<46, 43, 73, 253, 247, 60, 126, 209>>, 3>> :> <<2, 1>>
    @@ <<<<70, 154, 187, 12, 62, 220, 197, 219>>, 3>> :> <<1, 0>>
    @@ <<<<63, 109, 202, 17, 152, 2, 9, 253>>, 3>> :> <<0, 0>>
    @@ <<<<8, 220, 58, 137, 63, 24, 240, 119>>, 3>> :> <<0, 0>>
    @@ <<<<134, 146, 75, 117, 27, 208, 179, 98>>, 0>> :> <<>>
    @@ <<<<35, 183, 254, 86, 65, 129, 242, 171>>, 1>> :> <<>>
    @@ <<<<26, 89, 126, 90, 233, 3, 9, 20>>, 1>> :> <<>>
    @@ <<<<166, 186, 29, 87, 66, 82, 11, 42>>, 2>> :> <<0>>
    @@ <<<<228, 88, 165, 94, 91, 187, 229, 179>>, 2>> :> <<0>>
    @@ <<<<124, 95, 178, 217, 239, 10, 196, 138>>, 2>> :> <<0>>
    @@ <<<<3, 24, 79, 184, 168, 132, 0, 24>>, 2>> :> <<1>>
    @@ <<<<59, 179, 12, 124, 222, 103, 62, 20>>, 3>> :> <<1, 0>>
    @@ <<<<29, 116, 105, 206, 179, 200, 251, 182>>, 3>> :> <<0, 1>>
    @@ <<<<127, 208, 172, 161, 199, 124, 134, 249>>, 3>> :> <<0, 0>>
    @@ <<<<192, 205, 211, 64, 117, 13, 198, 255>>, 3>> :> <<2, 1>>
    @@ <<<<109, 64, 142, 71, 202, 143, 204, 167>>, 3>> :> <<0, 0>>
    @@ <<<<169, 15, 2, 172, 40, 65, 6, 41>>, 3>> :> <<1, 0>>
    @@ <<<<156, 205, 186, 133, 193, 14, 184, 158>>, 3>> :> <<1, 1>>
    @@ <<<<141, 142, 148, 252, 25, 177, 66, 47>>, 3>> :> <<0, 1>>
    @@ <<<<105, 63, 118, 219, 63, 176, 192, 208>>, 4>> :> <<3, 2, 1>>
    @@ <<<<34, 116, 197, 191, 155, 186, 128, 61>>, 4>> :> <<0, 2, 1>>
    @@ <<<<160, 128, 170, 48, 2, 249, 118, 54>>, 4>> :> <<3, 0, 1>>
    @@ <<<<52, 171, 234, 231, 232, 4, 6, 224>>, 4>> :> <<2, 0, 1>>
    @@ <<<<187, 48, 160, 28, 253, 30, 99, 17>>, 4>> :> <<1, 0, 0>>
    @@ <<<<215, 197, 198, 226, 230, 229, 181, 52>>, 4>> :> <<2, 0, 0>>
    @@ <<<<11, 200, 130, 201, 180, 103, 154, 107>>, 4>> :> <<1, 0, 1>>
    @@ <<<<32, 144, 96, 50, 151, 184, 240, 132>>, 4>> :> <<3, 1, 1>>
    @@ <<<<136, 179, 248, 73, 231, 117, 176, 47>>, 4>> :> <<3, 1, 1>>
    @@ <<<<211, 60, 210, 253, 54, 173, 167, 32>>, 4>> :> <<1, 0, 0>>
    @@ <<<<16, 116, 13, 163, 10, 9, 231, 86>>, 4>> :> <<2, 2, 1>>
    @@ <<<<113, 185, 40, 83, 141, 223, 169, 150>>, 4>> :> <<3, 0, 0>>
    @@ <<<<104, 181, 241, 18, 113, 137, 130, 51>>, 4>> :> <<2, 1, 1>>
    @@ <<<<3, 32, 121, 227, 80, 146, 46, 31>>, 4>> :> <<0, 2, 0>>
    @@ <<<<39, 61, 64, 227, 12, 186, 8, 161>>, 4>> :> <<1, 1, 1>>
    @@ <<<<50, 36, 195, 12, 48, 70, 132, 181>>, 4>> :> <<3, 0, 0>>
    @@ <<<<140, 135, 189, 5, 187, 229, 14, 63>>, 3>> :> <<1, 0>>
    @@ <<<<37, 50, 18, 126, 243, 151, 51, 152>>, 3>> :> <<1, 0>>
    @@ <<<<202, 78, 210, 205, 50, 25, 101, 164>>, 3>> :> <<2, 1>>
    @@ <<<<229, 43, 249, 103, 86, 214, 130, 191>>, 3>> :> <<0, 1>>
    @@ <<<<90, 151, 227, 121, 5, 104, 206, 67>>, 3>> :> <<2, 0>>
    @@ <<<<236, 148, 103, 66, 227, 18, 113, 225>>, 3>> :> <<2, 1>>

(* h.update(str(seed)); h.update(b"\x1F"); h.update(_canonical_bytes(value)); *)
(* h.digest()[:8]                                                            *)
_seed_key(seed, value) == Blake2b8[PyStr(seed) \o <<UnitSep>> \o _canonical_bytes(value)]

(* int.from_bytes(key, "big") % n *)
RECURSIVE KeyMod(_, _, _)
KeyMod(key, n, r) ==
    IF key = <<>> THEN r ELSE KeyMod(Tail(key), n, (r * 256 + Head(key)) % n)

choose(x, seed) ==
    IF seed = Null THEN Raise("F804")
    ELSE IF x.t # "list" THEN Raise("F102")
    ELSE IF x.xs = <<>> THEN Raise("F102")
    ELSE IF ~JsonSerializable(x) THEN Raise("TypeError")
    ELSE Ok(x.xs[KeyMod(_seed_key(seed, x), Len(x.xs), 0) + 1])

(* rng.shuffle(out): for i in reversed(range(1, len(out))):                 *)
(*     j = randbelow(i + 1); out[i], out[j] = out[j], out[i]                *)
RECURSIVE RandomShuffle(_, _, _)
RandomShuffle(xs, i, draws) ==
    IF i < 1 THEN xs
    ELSE RandomShuffle([xs EXCEPT ![i + 1] = xs[Head(draws) + 1], ![Head(draws) + 1] = xs[i + 1]],
                       i - 1, Tail(draws))

(* A heap is the sequence of the list objects alive, each its elements; an  *)
(* object is its index.                                                     *)
ListCopy_alias(heap_, x) == [heap |-> heap_, out |-> x]

(* out = list(x) *)
ListCopy(heap_, x) == [heap |-> Append(heap_, heap_[x]), out |-> Len(heap_) + 1]

(* k = _seed_key(seed, x); rng = random.Random(k); out = list(x);           *)
(* rng.shuffle(out)                                                         *)
Shuffled(c, key) ==
    [heap |-> [c.heap EXCEPT ![c.out] =
                  RandomShuffle(c.heap[c.out], Len(c.heap[c.out]) - 1,
                                MTDraws[<<key, Len(c.heap[c.out])>>])],
     out |-> c.out]
ShuffleIn(heap_, x, seed) == Shuffled(ListCopy(heap_, x), _seed_key(seed, List(heap_[x])))

ShuffleResult(c) == Ok(List(c.heap[c.out]))

shuffle(x, seed) ==
    IF seed = Null THEN Raise("F804")
    ELSE IF x.t # "list" THEN Raise("F102")
    ELSE IF ~JsonSerializable(x) THEN Raise("TypeError")
    ELSE ShuffleResult(ShuffleIn(<<x.xs>>, 1, seed))

(* fn(out, **call.kwargs) for a function with the one keyword seed *)
Seeded(call) ==
    call.args = <<>> /\ \A i \in 1..Len(call.kwargs.es) : call.kwargs.es[i].k = S_seed
SeedOf(call) == IF Has(call.kwargs, S_seed) THEN Get(call.kwargs, S_seed) ELSE Null

S_dedent == <<"d", "e", "d", "e", "n", "t">>
S_squeeze_spaces == <<"s", "q", "u", "e", "e", "z", "e", "_", "s", "p", "a", "c", "e", "s">>
S_limit == <<"l", "i", "m", "i", "t">>
S_replace == <<"r", "e", "p", "l", "a", "c", "e">>
S_regex_replace == <<"r", "e", "g", "e", "x", "_", "r", "e", "p", "l", "a", "c", "e">>
S_n == <<"n">>
S_old == <<"o", "l", "d">>
S_new == <<"n", "e", "w">>
S_pattern == <<"p", "a", "t", "t", "e", "r", "n">>
S_repl == <<"r", "e", "p", "l">>
Blank == {" ", "\t"}
NL == <<"\n">>

(* textwrap.dedent(x): lines of blanks become empty, then the longest       *)
(* common leading run of blanks of the other lines is taken off every line  *)
LeadingBlanks(line) ==
    SubSeq(line, 1, CHOOSE n \in 0..Len(line) :
                        /\ \A i \in 1..n : line[i] \in Blank
                        /\ (n < Len(line) => line[n + 1] \notin Blank))
Blanked(ls) ==
    [i \in DOMAIN ls |-> IF \A j \in DOMAIN ls[i] : ls[i][j] \in Blank THEN <<>> ELSE ls[i]]
Margin(ls) ==
    LET indents == {LeadingBlanks(ls[i]) : i \in {j \in DOMAIN ls : ls[j] # <<>>}}
        Common(n) == \A a, b \in indents :
                        Len(a) >= n /\ Len(b) >= n /\ SubSeq(a, 1, n) = SubSeq(b, 1, n)
    IN  IF indents = {} THEN <<>>
        ELSE LET some == CHOOSE a \in indents : TRUE
             IN  SubSeq(some, 1, CHOOSE n \in 0..Len(some) :
                                    Common(n) /\ (n < Len(some) => ~Common(n + 1)))
Undented(ls, margin) ==
    [i \in DOMAIN ls |-> IF StartsWith(ls[i], margin)
                         THEN SubSeq(ls[i], Len(margin) + 1, Len(ls[i])) ELSE ls[i]]
Dedent(text) ==
    Join(Undented(Blanked(Split(text, "\n")), Margin(Blanked(Split(text, "\n")))), NL)

dedent(x) == IF ~IsStr(x) THEN Raise("F102") ELSE Ok(StrV(Dedent(x.s)))

(* re.sub(r"[ \t]+", " ", x) *)
RECURSIVE Squeeze(_)
Squeeze(s) ==
    IF s = <<>> THEN <<>>
    ELSE IF Head(s) \in Blank
    THEN IF Len(s) > 1 /\ s[2] \in Blank THEN Squeeze(Tail(s)) ELSE <<" ">> \o Squeeze(Tail(s))
    ELSE <<Head(s)>> \o Squeeze(Tail(s))

squeeze_spaces(x) == IF ~IsStr(x) THEN Raise("F102") ELSE Ok(StrV(Squeeze(x.s)))

(* b[:n] for an int n, the characters of the model being one byte each *)
SliceTo(s, n) ==
    IF n >= 0 THEN SubSeq(s, 1, IF n < Len(s) THEN n ELSE Len(s))
    ELSE SubSeq(s, 1, IF Len(s) + n > 0 THEN Len(s) + n ELSE 0)

(* a bool is an int: True is 1 *)
AsInt(n) == IF n.t = "bool" THEN (IF n.b THEN 1 ELSE 0) ELSE n.n

limit(x, n) ==
    IF ~IsStr(x) THEN Raise("F102")
    ELSE IF n.t \notin {"int", "bool"} THEN Raise("TypeError")
    ELSE IF Len(x.s) <= AsInt(n) THEN Ok(x)
    ELSE Ok(StrV(SliceTo(x.s, AsInt(n))))

(* x.replace(old, new); an empty old stands before every character and at  *)
(* the end                                                                  *)
RECURSIVE Between(_, _)
Between(s, new) == IF s = <<>> THEN new ELSE new \o <<Head(s)>> \o Between(Tail(s), new)
StrReplace(s, old, new) == IF old = <<>> THEN Between(s, new) ELSE Replace(s, old, new)

replace(x, old, new) ==
    IF ~IsStr(x) THEN Raise("F102")
    ELSE IF ~IsStr(old) \/ ~IsStr(new) THEN Raise("TypeError")
    ELSE Ok(StrV(StrReplace(x.s, old.s, new.s)))

(* re.sub(pattern, repl, x) for the patterns of the model: a run of word    *)
(* characters matches itself, "(" does not compile, and a replacement       *)
(* holding a backslash refers to a group no such pattern has                *)
regex_replace(x, pattern, repl) ==
    IF ~IsStr(x) THEN Raise("F102")
    ELSE IF ~IsStr(pattern) \/ ~IsStr(repl) THEN Raise("TypeError")
    ELSE IF (\E i \in DOMAIN pattern.s : pattern.s[i] \notin WordChar)
            \/ (\E i \in DOMAIN repl.s : repl.s[i] = Backslash)
    THEN Raise("F803")
    ELSE Ok(StrV(StrReplace(x.s, pattern.s, repl.s)))

(* fn(out, *call.args, **call.kwargs) binds the parameters after x: by      *)
(* position, then by name; a parameter bound twice or not at all, or a name *)
(* the function does not have, is a TypeError                               *)
Binds(names, call) ==
    /\ Len(call.args) <= Len(names)
    /\ \A i \in 1..Len(call.kwargs.es) :
          \E j \in (Len(call.args) + 1)..Len(names) : names[j] = call.kwargs.es[i].k
    /\ \A j \in (Len(call.args) + 1)..Len(names) : Has(call.kwargs, names[j])
ArgOf(names, call, j) ==
    IF j <= Len(call.args) THEN call.args[j] ELSE Get(call.kwargs, names[j])

BUILTINS == {S_trim, S_dedent, S_squeeze_spaces, S_limit, S_lower, S_upper, S_replace,
             S_regex_replace, S_choose, S_shuffle}

Params(name) ==
    CASE name = S_limit -> <<S_n>>
      [] name = S_replace -> <<S_old, S_new>>
      [] name = S_regex_replace -> <<S_pattern, S_repl>>
      [] OTHER -> <<>>

(* fn(out, *call.args, **call.kwargs) for one call *)
ApplyLens(x, call) ==
    IF call.name \notin BUILTINS THEN Raise("F802")
    ELSE IF call.name \in {S_choose, S_shuffle} THEN
        IF ~Seeded(call) THEN Raise("TypeError")
        ELSE IF call.name = S_choose THEN choose(x, SeedOf(call))
        ELSE shuffle(x, SeedOf(call))
    ELSE IF ~Binds(Params(call.name), call) THEN Raise("TypeError")
    ELSE CASE call.name = S_trim -> trim(x)
           [] call.name = S_dedent -> dedent(x)
           [] call.name = S_squeeze_spaces -> squeeze_spaces(x)
           [] call.name = S_limit -> limit(x, ArgOf(Params(call.name), call, 1))
           [] call.name = S_lower -> lower(x)
           [] call.name = S_upper -> upper(x)
           [] call.name = S_replace ->
                 replace(x, ArgOf(Params(call.name), call, 1), ArgOf(Params(call.name), call, 2))
           [] call.name = S_regex_replace ->
                 regex_replace(x, ArgOf(Params(call.name), call, 1),
                               ArgOf(Params(call.name), call, 2))

RECURSIVE apply_pipeline(_, _)
apply_pipeline(value, pipeline) ==
    IF pipeline = <<>> THEN Ok(value)
    ELSE LET r == ApplyLens(value, Head(pipeline))
         IN  IF r.err # "" THEN r ELSE apply_pipeline(r.v, Tail(pipeline))

-----------------------------------------------------------------------------
(* typing_vars.py *)

S_type == <<"t", "y", "p", "e">>
S_enum == <<"e", "n", "u", "m">>
S_min == <<"m", "i", "n">>
S_max == <<"m", "a", "x">>
S_string == <<"s", "t", "r", "i", "n", "g">>
S_int == <<"i", "n", "t">>
S_float == <<"f", "l", "o", "a", "t">>
S_bool == <<"b", "o", "o", "l">>
S_array == <<"a", "r", "r", "a", "y">>
S_object == <<"o", "b", "j", "e", "c", "t">>

ALLOWED_TYPES == {S_string, S_int, S_float, S_bool, S_array, S_object}

_typeof(x) ==
    CASE x.t = "str" -> S_string
      [] x.t = "bool" -> S_bool
      [] x.t = "int" -> S_int
      [] x.t = "list" -> S_array
      [] OTHER -> S_object

(* the checks of one (path, spec) pair; "" when the pair passes.  A pattern *)
(* is modelled when it is plain text, where re.fullmatch is equality.       *)
ValidateOne(vars_map, path, spec) ==
    LET t == IF Has(spec, S_type) THEN Get(spec, S_type) ELSE Null
        cur == WalkPath(vars_map, Split(path, "."), "F451")
        actual == _typeof(cur.v)
        plain(p) == IsStr(p) /\ \A i \in 1..Len(p.s) : p.s[i] \in NameChars \ {"."}
    IN  IF spec.t # "dict" THEN "AttributeError"
        ELSE IF t.t \in {"list", "dict"} THEN "TypeError"
        ELSE IF ~(IsStr(t) /\ t.s \in ALLOWED_TYPES) THEN "F451"
        ELSE IF cur.err # "" THEN "F451"
        ELSE IF t.s = S_int /\ actual = S_float THEN "F451"
        ELSE IF t.s # actual /\ ~(t.s = S_float /\ actual = S_int) THEN "F451"
        ELSE IF Has(spec, S_enum) /\ Get(spec, S_enum).t # "list" THEN "unmodelled"
        ELSE IF Has(spec, S_enum)
                /\ ~\E i \in 1..Len(Get(spec, S_enum).xs) : PyEq(Get(spec, S_enum).xs[i], cur.v)
        THEN "F452"
        ELSE IF t.s \in {S_int, S_float} /\ Has(spec, S_min) /\ ~IsNumber(Get(spec, S_min))
        THEN "TypeError"
        ELSE IF t.s \in {S_int, S_float} /\ Has(spec, S_min)
                /\ NumOf(cur.v) < NumOf(Get(spec, S_min))
        THEN "F452"
        ELSE IF t.s \in {S_int, S_float} /\ Has(spec, S_max) /\ ~IsNumber(Get(spec, S_max))
        THEN "TypeError"
        ELSE IF t.s \in {S_int, S_float} /\ Has(spec, S_max)
                /\ NumOf(cur.v) > NumOf(Get(spec, S_max))
        THEN "F452"
        ELSE IF t.s = S_string /\ Has(spec, S_pattern) /\ ~plain(Get(spec, S_pattern))
        THEN "unmodelled"
        ELSE IF t.s = S_string /\ Has(spec, S_pattern) /\ Get(spec, S_pattern).s # cur.v.s
        THEN "F452"
        ELSE ""

RECURSIVE ValidateFrom(_, _)
ValidateFrom(vars_map, es) ==
    IF es = <<>> THEN ""
    ELSE LET e == ValidateOne(vars_map, Head(es).k, Head(es).v)
         IN  IF e # "" THEN e ELSE ValidateFrom(vars_map, Tail(es))

validate_var_types(vars_map, specs) == ValidateFrom(vars_map, specs.es)

-----------------------------------------------------------------------------
(* canon.py: the @vars resolution *)

(* _path_exists(env, path) *)
RECURSIVE PathExistsFrom(_, _)
PathExistsFrom(cur, parts) ==
    IF parts = <<>> THEN TRUE
    ELSE /\ cur.t = "dict"
         /\ Has(cur, Head(parts))
         /\ PathExistsFrom(Get(cur, Head(parts)), Tail(parts))

_path_exists(scope, path) == PathExistsFrom(scope, Split(path, "."))

(* _get_path(env, path), called once the path exists *)
_get_path(scope, path) == WalkPath(scope, Split(path, "."), "KeyError").v

(* The regular expression  \{\{\s*([a-zA-Z_][\w\.]+)\s*\}\}  tried at        *)
(* position i: [ok, ref, end] with end the position after the match.        *)
RECURSIVE SkipWhile(_, _, _)
SkipWhile(text, i, S) ==
    IF i <= Len(text) /\ text[i] \in S THEN SkipWhile(text, i + 1, S) ELSE i

(* the characters the group needs: one [a-zA-Z_] and at least one [\w\.] *)
RefNameMin == 2

RefMatch(text, i, min) ==
    LET j == SkipWhile(text, i + 2, Space)
        k == SkipWhile(text, j + 1, Lower \cup Upper \cup Digit \cup {"_", "."})
        e == SkipWhile(text, k, Space)
        ok == /\ StartsWithAt(text, <<"{", "{">>, i)
              /\ j <= Len(text)
              /\ text[j] \in Lower \cup Upper \cup {"_"}
              /\ k - j >= min
              /\ StartsWithAt(text, <<"}", "}">>, e)
    IN  [ok |-> ok, ref |-> IF ok THEN SubSeq(text, j, k - 1) ELSE <<>>, end |-> e + 2]

RefMatchAt(text, i) == RefMatch(text, i, RefNameMin)

(* for m in re.finditer(...): F404 on the first reference env does not hold *)
RECURSIVE ScanRefs(_, _, _)
ScanRefs(text, i, scope) ==
    IF i > Len(text) THEN ""
    ELSE LET m == RefMatchAt(text, i)
         IN  IF ~m.ok THEN ScanRefs(text, i + 1, scope)
             ELSE IF ~_path_exists(scope, m.ref) THEN "F404"
             ELSE ScanRefs(text, m.end, scope)

RECURSIVE _resolve_value_topdown(_, _)
RECURSIVE ResolveEach(_, _, _)
ResolveEach(xs, scope, acc) ==
    IF xs = <<>> THEN Ok(acc)
    ELSE LET r == _resolve_value_topdown(Head(xs), scope)
         IN  IF r.err # "" THEN r ELSE ResolveEach(Tail(xs), scope, Append(acc, r.v))

_resolve_value_topdown(value, scope) ==
    IF IsFence(value) THEN Ok(StrV(value.value))
    ELSE IF IsStr(value) THEN
        IF StartsWith(value.s, <<"$", "{">>) /\ EndsWith(value.s, <<"}">>)
        THEN LET path == Strip(SubSeq(value.s, 3, Len(value.s) - 1))
             IN  IF ~_path_exists(scope, path) THEN Raise("F404")
                 ELSE Ok(_get_path(scope, path))
        ELSE IF StartsWith(value.s, <<"$">>) /\ Len(value.s) > 1
        THEN IF ~_path_exists(scope, Tail(value.s)) THEN Raise("F404")
             ELSE Ok(_get_path(scope, Tail(value.s)))
        ELSE IF Contains(value.s, <<"{", "{">>)
        THEN IF ScanRefs(value.s, 1, scope) # "" THEN Raise(ScanRefs(value.s, 1, scope))
             ELSE interpolate_string(value.s, scope)
        ELSE Ok(value)
    ELSE IF value.t = "list" THEN
        LET r == ResolveEach(value.xs, scope, <<>>)
        IN  IF r.err # "" THEN r ELSE Ok(List(r.v))
    ELSE IF value.t = "dict" THEN
        LET r == ResolveEach(Values(value), scope, <<>>)
        IN  IF r.err # "" THEN r
            ELSE Ok(Dict([i \in 1..Len(value.es) |-> E(value.es[i].k, r.v[i])]))
    ELSE Ok(value)

(* spec_map[node.key] = node.value for the KV nodes of @var_types *)
RECURSIVE SpecMap(_, _)
SpecMap(body, m) ==
    IF body = <<>> THEN m
    ELSE SpecMap(Tail(body),
                 IF IsKV(Head(body)) THEN Put(m, Head(body).key, Head(body).value) ELSE m)

-----------------------------------------------------------------------------
(* canon.py: the evaluator.  A result carries ops, the number of calls of   *)
(* eval_if, substitute_scalar, interpolate_string and apply_pipeline made   *)
(* to obtain it (the call that raised included).                            *)

Res(v, e, n) == [v |-> v, err |-> e, ops |-> n]
AddOps(r, n) == Res(r.v, r.err, r.ops + n)
Called(r, n) == Res(r.v, r.err, n)

(* v = substitute_scalar(v, env); if isinstance(v, str): interpolate_string *)
ScalarInterp(sub, scope) ==
    IF sub.err # "" THEN Called(sub, 1)
    ELSE IF IsStr(sub.v) THEN Called(interpolate_string(sub.v.s, scope), 2)
    ELSE Called(sub, 1)

(* a value that is no list of "-" items: fences are taken verbatim *)
EvalScalar(v, scope) ==
    IF IsFence(v) THEN Res(StrV(v.value), "", 0)
    ELSE ScalarInterp(substitute_scalar(v, scope), scope)

(* if lenses: the chain limit, then apply_pipeline *)
EvalLenses(v, lenses) ==
    IF lenses = <<>> THEN Res(v, "", 0)
    ELSE IF Len(lenses) > MAX_LENS_CHAIN THEN Res(Null, "F803", 0)
    ELSE Called(apply_pipeline(v, lenses), 1)

ThenLenses(val, lenses) ==
    IF val.err # "" THEN val ELSE AddOps(EvalLenses(val.v, lenses), val.ops)

(* one "-" item: [keep, v, err, ops] *)
Item(keep, r) == [keep |-> keep /\ r.err = "", v |-> r.v, err |-> r.err, ops |-> r.ops]

ItemValue(li, scope) == ThenLenses(EvalScalar(li.value, scope), li.lenses)

ItemGated(gate, li, scope) ==
    IF gate.err # "" THEN Item(FALSE, gate)
    ELSE IF ~gate.v.b THEN Item(FALSE, Res(Null, "", 1))
    ELSE Item(TRUE, AddOps(ItemValue(li, scope), 1))

EvalItem(li, scope) ==
    IF li.item_if = Null THEN Item(TRUE, ItemValue(li, scope))
    ELSE ItemGated(Called(eval_if(li.item_if.s, scope), 1), li, scope)

AccItem(acc, r) ==
    IF r.err # "" THEN Res(Null, r.err, acc.ops + r.ops)
    ELSE Res(IF r.keep THEN Append(acc.v, r.v) ELSE acc.v, "", acc.ops + r.ops)

RECURSIVE EvalListItems(_, _, _)
ListNext(items, scope, acc) ==
    IF acc.err # "" THEN acc ELSE EvalListItems(items, scope, acc)

EvalListItems(items, scope, acc) ==
    IF items = <<>> THEN acc
    ELSE ListNext(Tail(items), scope, AccItem(acc, EvalItem(Head(items), scope)))

NoItems == Res(<<>>, "", 0)
ListRes(r) == IF r.err # "" THEN r ELSE Res(List(r.v), "", r.ops)
IsItemList(val) == val.t = "list" /\ All(val.xs, IsListItem)

(* one KV of a map body: its "-" items or its scalar, then its lenses *)
KVValue(item, scope) ==
    IF IsItemList(item.value) THEN ListRes(EvalListItems(item.value.xs, scope, NoItems))
    ELSE EvalScalar(item.value, scope)

EvalKV(item, scope) == ThenLenses(KVValue(item, scope), item.lenses)

AccKV(acc, key, r) ==
    IF r.err # "" THEN Res(Null, r.err, acc.ops + r.ops)
    ELSE Res(Put(acc.v, key, r.v), "", acc.ops + r.ops)

RECURSIVE EvalMapBody(_, _, _)
MapNext(body, scope, acc) ==
    IF acc.err # "" THEN acc ELSE EvalMapBody(body, scope, acc)

EvalMapBody(body, scope, acc) ==
    IF body = <<>> THEN acc
    ELSE IF ~IsKV(Head(body)) THEN EvalMapBody(Tail(body), scope, acc)
    ELSE MapNext(Tail(body), scope, AccKV(acc, Head(body).key, EvalKV(Head(body), scope)))

(* if f.attrs and "&" in f.attrs: out[f.name] = {"&": anchor_name, "value": obj} *)
WrapHeaderAnchor(f, obj) ==
    IF f.attrs.es # <<>> /\ Has(f.attrs, ANCHOR_KEY)
    THEN Dict(<<E(ANCHOR_KEY, Get(f.attrs, ANCHOR_KEY)), E(S_value, obj)>>)
    ELSE obj

(* {"_attrs": f.attrs} if f.attrs else {} *)
WithAttrs(f) == IF f.attrs.es # <<>> THEN Dict(<<E(S_attrs, f.attrs)>>) ELSE EmptyDict

(* is_list = all(isinstance(x, ListItem) for x in f.body) and len(f.body) > 0 *)
IsListBody(f) == f.body # <<>> /\ All(f.body, IsListItem)

ItemsObj(f, r) ==
    IF r.err # "" THEN r ELSE Res(Put(WithAttrs(f), S_items, List(r.v)), "", r.ops)

FacetObj(f, r) == IF r.err # "" THEN r ELSE Res(WrapHeaderAnchor(f, r.v), "", r.ops)

EvalBody(f, scope) ==
    FacetObj(f, IF IsListBody(f) THEN ItemsObj(f, EvalListItems(f.body, scope, NoItems))
                ELSE EvalMapBody(f.body, scope, Res(WithAttrs(f), "", 0)))

(* one facet of normal_facets: [skip, v, err, ops] *)
FacetRes(skip, r) == [skip |-> skip, v |-> r.v, err |-> r.err, ops |-> r.ops]

FacetGated(gate, f, scope) ==
    IF gate.err # "" THEN FacetRes(FALSE, gate)
    ELSE IF ~gate.v.b THEN FacetRes(TRUE, Res(Null, "", 1))
    ELSE FacetRes(FALSE, AddOps(EvalBody(f, scope), 1))

(* f_if = f.attrs.get('if') *)
FacetIf(f) == IF Has(f.attrs, S_if) THEN Get(f.attrs, S_if) ELSE Null

EvalFacet(f, scope) ==
    IF FacetIf(f) # Null /\ ~IsStr(FacetIf(f)) THEN FacetRes(FALSE, Res(Null, "F704", 0))
    ELSE IF IsStr(FacetIf(f)) /\ FacetIf(f).s # <<>>
    THEN FacetGated(Called(eval_if(FacetIf(f).s, scope), 1), f, scope)
    ELSE FacetRes(FALSE, EvalBody(f, scope))

-----------------------------------------------------------------------------
(* anchors.py *)

IsAnchored(value) == value.t = "dict" /\ Has(value, ANCHOR_KEY) /\ Has(value, S_value)
IsAlias(value) == value.t = "dict" /\ Has(value, ALIAS_KEY) /\ Len(value.es) = 1

RECURSIVE _walk_collect(_, _)
RECURSIVE CollectEach(_, _)

(* for it in value: _walk_collect(it, anchors) -- acc is [anchors, err] *)
CollectEach(xs, acc) ==
    IF xs = <<>> \/ acc.err # "" THEN acc
    ELSE CollectEach(Tail(xs), _walk_collect(Head(xs), acc))

(* the children _walk_collect descends into: every key but "&" and "value" *)
CollectChildren(value) ==
    LET kept == SelectSeq(value.es, LAMBDA e : e.k \notin {ANCHOR_KEY, S_value})
    IN  [i \in 1..Len(kept) |-> kept[i].v]

_walk_collect(value, acc) ==
    IF acc.err # "" THEN acc
    ELSE IF value.t = "dict" THEN
        LET name == Get(value, ANCHOR_KEY).s
            a1 == IF IsAnchored(value)
                  THEN IF Has(acc.anchors, name)
                       THEN [acc EXCEPT !.err = "F202"]
                       ELSE [acc EXCEPT !.anchors = Put(@, name, Get(value, S_value))]
                  ELSE acc
        IN  CollectEach(CollectChildren(value), a1)
    ELSE IF value.t = "list" THEN CollectEach(value.xs, acc)
    ELSE acc

VisitingRemove_keep(visiting, name) == visiting

(* visiting.remove(name) *)
VisitingRemove(visiting, name) == visiting \ {name}

RECURSIVE _walk_substitute(_, _, _)
RECURSIVE SubstEach(_, _, _, _)

(* The comprehensions of _walk_substitute: the children in order, sharing   *)
(* the set object `visiting`; r is [vs, err, visiting].                     *)
SubstEach(xs, anch, visiting, r) ==
    IF xs = <<>> \/ r.err # "" THEN r
    ELSE LET one == _walk_substitute(Head(xs), anch, r.visiting)
         IN  SubstEach(Tail(xs), anch, visiting,
                       [vs |-> Append(r.vs, one.v), err |-> one.err, msg |-> one.msg,
                        visiting |-> one.visiting])

(* Returns [v, err, visiting]: the value, the error raised ("" for none)    *)
(* and the content of the caller's set object after the call.  `visiting    *)
(* or set()` makes a fresh set when the caller's is empty, so what the call *)
(* adds is then not seen by the caller.                                     *)
_walk_substitute(value, anch, visiting) ==
    LET shared == visiting # {}
        back(r) == [r EXCEPT !.visiting = IF shared THEN @ ELSE visiting]
    IN
    IF value.t = "dict" THEN
        IF IsAlias(value) THEN
            LET name == Get(value, ALIAS_KEY).s IN
            IF name \in visiting
            THEN [v |-> Null, err |-> "F201", msg |-> "Anchor cycle detected",
                  visiting |-> visiting]
            ELSE IF ~Has(anch, name)
            THEN [v |-> Null, err |-> "F201", msg |-> "Undefined anchor alias",
                  visiting |-> visiting]
            ELSE LET r == _walk_substitute(Get(anch, name), anch, visiting \cup {name})
                 IN  IF r.err # "" THEN back(r)
                     ELSE back([r EXCEPT !.visiting = VisitingRemove(@, name)])
        ELSE IF IsAnchored(value) THEN
            back(_walk_substitute(Get(value, S_value), anch, visiting))
        ELSE
            LET r == SubstEach(Values(value), anch, visiting,
                               [vs |-> <<>>, err |-> "", msg |-> "", visiting |-> visiting])
            IN  back([v |-> IF r.err # "" THEN Null
                            ELSE Dict([i \in 1..Len(value.es) |-> E(value.es[i].k, r.vs[i])]),
                      err |-> r.err, msg |-> r.msg, visiting |-> r.visiting])
    ELSE IF value.t = "list" THEN
        LET r == SubstEach(value.xs, anch, visiting,
                           [vs |-> <<>>, err |-> "", msg |-> "", visiting |-> visiting])
        IN  back([v |-> IF r.err # "" THEN Null ELSE List(r.vs),
                  err |-> r.err, msg |-> r.msg, visiting |-> r.visiting])
    ELSE [v |-> value, err |-> "", msg |-> "", visiting |-> visiting]

-----------------------------------------------------------------------------
(* resolve_anchors(json_obj): the collect pass, then the substitute pass.   *)

ResolveCollect ==
    /\ pc = "resolve_collect"
    /\ LET acc == _walk_collect(out, [anchors |-> EmptyDict, err |-> ""])
       IN  /\ anchors' = acc.anchors
           /\ err' = acc.err
           /\ msg' = IF acc.err # "" THEN "Anchor redefinition" ELSE ""
           /\ pc' = IF acc.err # "" THEN "failed" ELSE "resolve_substitute"
    /\ UNCHANGED <<out, result, inputVars, lexVars, walk, lensVars, importVars, canonVars>>

ResolveSubstitute ==
    /\ pc = "resolve_substitute"
    /\ LET r == _walk_substitute(out, anchors, {})
       IN  /\ err' = r.err
           /\ msg' = r.msg
           /\ result' = r.v
           /\ pc' = IF r.err # "" THEN "failed" ELSE "done"
    /\ UNCHANGED <<out, anchors, inputVars, lexVars, walk, lensVars, importVars, canonVars>>

-----------------------------------------------------------------------------
(* _walk_substitute call by call.  walk is the stack of the active calls; a *)
(* call is the value it was given, the children it has still to walk (the   *)
(* anchored value for an alias or an anchored node), the results it has so  *)
(* far, the content of its set `visiting`, and whether that set is the      *)
(* caller's object (`visiting or set()` makes a new one for an empty set).  *)

(* name = value["*"], name = value["&"] *)
NameOf(node) ==
    IF IsAlias(node) THEN Get(node, ALIAS_KEY).s ELSE Get(node, ANCHOR_KEY).s

InVisiting_never(visiting, name) == FALSE

(* if name in visiting *)
InVisiting(visiting, name) == name \in visiting

WalkKind(value) ==
    IF value.t = "dict"
    THEN (IF IsAlias(value) THEN "alias" ELSE IF IsAnchored(value) THEN "anchored" ELSE "dict")
    ELSE IF value.t = "list" THEN "list" ELSE "leaf"

Call(value, todo, visiting, shared) ==
    [value |-> value, todo |-> todo, vs |-> <<>>, visiting |-> visiting, shared |-> shared,
     err |-> "", msg |-> ""]
Raised(code, text) ==
    [value |-> Null, todo |-> <<>>, vs |-> <<>>, visiting |-> {}, shared |-> FALSE,
     err |-> code, msg |-> text]

(* the call _walk_substitute(value, anchors, visiting) up to its first      *)
(* inner call                                                               *)
Enter(value, anch, visiting) ==
    IF WalkKind(value) = "alias"
    THEN IF InVisiting(visiting, NameOf(value)) THEN Raised("F201", "Anchor cycle detected")
         ELSE IF ~Has(anch, NameOf(value)) THEN Raised("F201", "Undefined anchor alias")
         ELSE Call(value, <<Get(anch, NameOf(value))>>, visiting \cup {NameOf(value)},
                   visiting # {})
    ELSE IF WalkKind(value) = "anchored"
    THEN Call(value, <<Get(value, S_value)>>, visiting, visiting # {})
    ELSE IF WalkKind(value) = "dict" THEN Call(value, Values(value), visiting, visiting # {})
    ELSE IF WalkKind(value) = "list" THEN Call(value, value.xs, visiting, visiting # {})
    ELSE Call(value, <<>>, visiting, visiting # {})

(* what a call returns once its inner calls have returned *)
Returns(c) ==
    IF WalkKind(c.value) \in {"alias", "anchored"} THEN c.vs[1]
    ELSE IF WalkKind(c.value) = "dict"
    THEN Dict([i \in 1..Len(c.value.es) |-> E(c.value.es[i].k, c.vs[i])])
    ELSE IF WalkKind(c.value) = "list" THEN List(c.vs)
    ELSE c.value

(* the content of the call's set when it returns *)
VisitingAtReturn(c) ==
    IF WalkKind(c.value) = "alias" THEN VisitingRemove(c.visiting, NameOf(c.value))
    ELSE c.visiting

(* the caller after the inner call c has returned *)
Resumed(caller, c) ==
    [caller EXCEPT !.todo = Tail(@), !.vs = Append(@, Returns(c)),
                   !.visiting = IF c.shared THEN VisitingAtReturn(c) ELSE @]

MaxWalk == 12

Entered(c, rest) ==
    IF c.err # ""
    THEN /\ pc' = "failed" /\ err' = c.err /\ msg' = c.msg
         /\ walk' = <<>>
    ELSE /\ walk' = Append(rest, c)
         /\ UNCHANGED <<pc, err, msg>>

(* return _walk_substitute(json_obj, anchors) *)
WalkStart ==
    /\ pc = "resolve_substitute"
    /\ walk = <<>>
    /\ \E c \in {Enter(out, anchors, {})} : Entered(c, <<>>)
    /\ UNCHANGED <<out, anchors, result, inputVars, lexVars, lensVars, importVars, canonVars>>

(* the topmost call makes its next inner call *)
WalkCall ==
    /\ pc = "resolve_substitute"
    /\ walk # <<>>
    /\ walk[Len(walk)].todo # <<>>
    /\ Len(walk) < MaxWalk
    /\ \E c \in {Enter(Head(walk[Len(walk)].todo), anchors, walk[Len(walk)].visiting)} :
           Entered(c, walk)
    /\ UNCHANGED <<out, anchors, result, inputVars, lexVars, lensVars, importVars, canonVars>>

(* the topmost call returns, to its caller or to resolve_anchors *)
WalkReturn ==
    /\ pc = "resolve_substitute"
    /\ walk # <<>>
    /\ walk[Len(walk)].todo = <<>>
    /\ IF Len(walk) = 1
       THEN /\ result' = Returns(walk[1])
            /\ pc' = "done"
            /\ walk' = <<>>
       ELSE /\ walk' = Append(SubSeq(walk, 1, Len(walk) - 2),
                              Resumed(walk[Len(walk) - 1], walk[Len(walk)]))
            /\ UNCHANGED <<pc, result>>
    /\ UNCHANGED <<err, msg, out, anchors, inputVars, lexVars, lensVars, importVars, canonVars>>

-----------------------------------------------------------------------------
(* pathlib and the file system, as imports.py uses them.  A path string is  *)
(* its characters; a Path is its parts; the file system is the directories  *)
(* Dirs, the symbolic links Links and the regular files of the variable     *)
(* files, each named by its parts from the root directory.                  *)

S_path == <<"p", "a", "t", "h">>
S_strategy == <<"s", "t", "r", "a", "t", "e", "g", "y">>
S_merge == <<"m", "e", "r", "g", "e">>

P_up == <<".", ".">>
P_w == <<"w">>
P_d == <<"d">>
P_o == <<"o">>
P_l == <<"l">>
P_H == <<"H", ":">>

(* Path.cwd() *)
Cwd == <<P_w>>
Dirs == {<<>>, <<P_w>>, <<P_w, P_d>>, <<P_w, P_H>>, <<P_o>>}
(* /w/l -> /o *)
Links == [p \in {<<P_w, P_l>>} |-> <<P_o>>]

NoLens == heap = <<>> /\ given = Null /\ returned = <<>>
NoSource == source = <<>> /\ tokens = <<>> /\ lines = "" /\ lexer = Null /\ parser = Null
NoFiles == files = <<>> /\ import_roots = <<(<<".">>)>> /\ strict_merge = FALSE

(* Path(path): the parts between slashes, empty parts and "." dropped *)
Path(cs) ==
    [abs |-> cs # <<>> /\ cs[1] = "/",
     parts |-> SelectSeq(Split(cs, "/"), LAMBDA part : part # <<>> /\ part # <<".">>)]

(* re.match(r"^[a-z]+://", path) *)
IsUrl(cs) ==
    \E n \in 1..Len(cs) :
        /\ \A i \in 1..n : cs[i] \in Lower
        /\ StartsWithAt(cs, <<":", "/", "/">>, n + 1)

(* Path.cwd() / p *)
UnderCwd(p) == IF p.abs THEN p.parts ELSE Cwd \o p.parts

Parent(parts) == IF parts = <<>> THEN <<>> ELSE SubSeq(parts, 1, Len(parts) - 1)

(* path.resolve(): links followed, ".." taken from the resolved prefix,     *)
(* parts that do not exist kept                                             *)
RECURSIVE ResolveFrom(_, _)
ResolveFrom(cur, rest) ==
    IF rest = <<>> THEN cur
    ELSE IF Head(rest) = P_up THEN ResolveFrom(Parent(cur), Tail(rest))
    ELSE IF Append(cur, Head(rest)) \in DOMAIN Links
         THEN ResolveFrom(Links[Append(cur, Head(rest))], Tail(rest))
         ELSE ResolveFrom(Append(cur, Head(rest)), Tail(rest))

resolve(parts) == ResolveFrom(<<>>, parts)

(* what the operating system finds at a path: every part but the last must  *)
(* be a directory                                                           *)
NoEntry == [found |-> FALSE, at |-> <<>>]
RECURSIVE Lookup(_, _, _)
Lookup(fs, cur, rest) ==
    IF rest = <<>> THEN [found |-> TRUE, at |-> cur]
    ELSE IF cur \notin Dirs THEN NoEntry
    ELSE IF Head(rest) = P_up THEN Lookup(fs, Parent(cur), Tail(rest))
    ELSE IF Append(cur, Head(rest)) \in DOMAIN Links
         THEN Lookup(fs, Links[Append(cur, Head(rest))], Tail(rest))
    ELSE IF Append(cur, Head(rest)) \in Dirs \cup DOMAIN fs
         THEN Lookup(fs, Append(cur, Head(rest)), Tail(rest))
    ELSE NoEntry

(* full.exists() *)
exists(fs, full) == Lookup(fs, <<>>, full).found

IsPrefix(a, b) == Len(a) <= Len(b) /\ SubSeq(b, 1, Len(a)) = a

(* rp.relative_to(rr) succeeds for some root *)
_is_allowed(full, roots) ==
    \E i \in 1..Len(roots) : IsPrefix(resolve(UnderCwd(Path(roots[i]))), resolve(full))

-----------------------------------------------------------------------------
(* limits.py is not part of the sources at hand: the limits are the named   *)
(* limits of the specification, with small values.                          *)

MAX_IMPORT_DEPTH == 3
MAX_IMPORTS == 4

-----------------------------------------------------------------------------
(* imports.py, _merge_facets *)

FacetIndex(fs, name) ==
    IF \E i \in 1..Len(fs) : fs[i].name = name
    THEN CHOOSE i \in 1..Len(fs) : fs[i].name = name /\ \A j \in 1..(i - 1) : fs[j].name # name
    ELSE 0

(* attrs = dict(a.attrs); attrs.update(f.attrs) *)
MergeAttrs(a, f) == Update(a, f.es)

(* seen[kv.key] = kv for kv in a.body + f.body; list(seen.values()) *)
RECURSIVE SeenFrom(_, _)
SeenFrom(body, seen) ==
    IF body = <<>> THEN seen
    ELSE SeenFrom(Tail(body), Put(seen, Head(body).key, Head(body)))

MergeKV_keepfirst(a_body, f_body) == Values(SeenFrom(f_body \o a_body, EmptyDict))

MergeKV(a_body, f_body) == Values(SeenFrom(a_body \o f_body, EmptyDict))

(* the facet standing at out[idx] after f has been merged into a *)
MergeInto(a, f, strict) ==
    IF All(a.body, IsKV) /\ All(f.body, IsKV)
    THEN Ok(Facet(a.name, MergeAttrs(a.attrs, f.attrs), MergeKV(a.body, f.body)))
    ELSE IF All(a.body, IsListItem) /\ All(f.body, IsListItem)
    THEN Ok(Facet(a.name, MergeAttrs(a.attrs, f.attrs), a.body \o f.body))
    ELSE IF strict THEN Raise("F606")
    ELSE Ok(f)

Placed(acc, idx, f) == [acc EXCEPT ![idx] = f]

MergeOne(acc, idx, f, strategy, strict) ==
    IF idx = 0 THEN Ok(Append(acc, f))
    ELSE IF strategy = StrV(S_replace) THEN Ok(Placed(acc, idx, f))
    ELSE LET m == MergeInto(acc[idx], f, strict)
         IN  IF m.err # "" THEN m ELSE Ok(Placed(acc, idx, m.v))

RECURSIVE _merge_facets(_, _, _, _)
_merge_facets(dst, src, strategy, strict) ==
    IF src = <<>> THEN Ok(dst)
    ELSE LET r == MergeOne(dst, FacetIndex(dst, Head(src).name), Head(src), strategy, strict)
         IN  IF r.err # "" THEN r ELSE _merge_facets(r.v, Tail(src), strategy, strict)

-----------------------------------------------------------------------------
(* lexer.py.  The state of a _Lexer is a record: i (the position of the     *)
(* next character, from 1), bol, in_fence, indent_stack, tokens, and the    *)
(* error raised, if any.                                                    *)

WHITESPACE == {" ", "\t"}
DIGITS == Digit
IDENT_START == Lower \cup Upper \cup {"_"}
IDENT_BODY == IDENT_START \cup DIGITS \cup {"."}
Alnum == Lower \cup Upper \cup Digit
Triple == <<"\"", "\"", "\"">>
(* the grave accent, a character that a TLA+ string cannot hold *)
Grave == "grave"
Backticks == <<Grave, Grave, Grave>>

(* limits.MAX_FENCE_BYTES, a named limit of the specification *)
MAX_FENCE_BYTES == 8

Token(kind, value) == [kind |-> kind, value |-> value]
_Lexer == [i |-> 1, bol |-> TRUE, in_fence |-> FALSE, indent_stack |-> <<0>>,
           tokens |-> <<>>, err |-> "", msg |-> ""]

peek(text, i, n) == IF i + n <= Len(text) THEN text[i + n] ELSE ""
emit(lx, kind, value) == [lx EXCEPT !.tokens = Append(@, Token(kind, value))]
raise_f(lx, code, text) == [lx EXCEPT !.err = code, !.msg = text]
advance(text, lx, n) ==
    [lx EXCEPT !.i = IF lx.i + n <= Len(text) THEN lx.i + n ELSE Len(text) + 1,
               !.bol = @ \/ \E k \in lx.i..(lx.i + n - 1) : k <= Len(text) /\ text[k] = "\n"]
Moved(lx, j) == [lx EXCEPT !.i = j]
NotBol(lx) == [lx EXCEPT !.bol = FALSE]

RECURSIVE PopTo(_, _)
PopTo(lx, level) ==
    IF lx.indent_stack # <<>> /\ lx.indent_stack[Len(lx.indent_stack)] > level
    THEN PopTo(emit([lx EXCEPT !.indent_stack = SubSeq(@, 1, Len(@) - 1)], "DEDENT", <<>>),
               level)
    ELSE lx

Dedented(lx, level) ==
    IF lx.indent_stack[Len(lx.indent_stack)] # level
    THEN raise_f(lx, "F002", "Malformed dedent") ELSE lx

Levelled_jump(lx, level, cur) ==
    IF level = cur THEN lx
    ELSE IF level > cur
    THEN emit([lx EXCEPT !.indent_stack = Append(@, level)], "INDENT", <<>>)
    ELSE Dedented(PopTo(lx, level), level)
Levelled(lx, level, cur) ==
    IF level = cur THEN lx
    ELSE IF level = cur + 1
    THEN emit([lx EXCEPT !.indent_stack = Append(@, level)], "INDENT", <<>>)
    ELSE IF level < cur THEN Dedented(PopTo(lx, level), level)
    ELSE raise_f(lx, "F002", "Indentation increased by more than one level")

(* _handle_indent, once the leading spaces have been spacesed *)
Indented(text, lx, spaces) ==
    IF peek(text, lx.i, 0) = "\t"
    THEN raise_f(lx, "F002", "Tabs are not allowed for indentation or spacing")
    ELSE IF peek(text, lx.i, 0) = "\n"
    THEN [emit(lx, "NEWLINE", <<>>) EXCEPT !.i = lx.i + 1, !.bol = TRUE]
    ELSE IF ~lx.in_fence /\ spaces % 2 # 0
    THEN raise_f(NotBol(lx), "F002", "Indentation must be multiples of 2 spaces")
    ELSE IF lx.in_fence THEN NotBol(lx)
    ELSE Levelled(NotBol(lx), spaces \div 2, lx.indent_stack[Len(lx.indent_stack)])

_handle_indent(text, lx) ==
    Indented(text, Moved(lx, SkipWhile(text, lx.i, {" "})), SkipWhile(text, lx.i, {" "}) - lx.i)

(* _string: the position of the quote that closes a "..." string, 0 for none *)
RECURSIVE CloseQuote(_, _)
CloseQuote(text, i) ==
    IF i > Len(text) THEN 0
    ELSE IF text[i] = "\"" THEN i
    ELSE IF text[i] = "\\" THEN CloseQuote(text, i + 2)
    ELSE CloseQuote(text, i + 1)

Closed(text, lx, j, quotes, unterminated) ==
    IF j = 0 THEN raise_f(lx, "F003", unterminated)
    ELSE emit(advance(text, lx, j + quotes - lx.i), "STRING", SubSeq(text, lx.i + quotes, j - 1))

_string(text, lx) ==
    IF StartsWithAt(text, Triple, lx.i)
    THEN Closed(text, lx, Find(text, Triple, lx.i + 3), 3, "Unterminated triple-quoted string")
    ELSE Closed(text, lx, CloseQuote(text, lx.i + 1), 1, "Unterminated string")

(* _fence: multiline when the opening line holds only a language tag *)
IsMultiline(text, i) ==
    /\ SkipWhile(text, SkipWhile(text, i, Alnum), WHITESPACE) <= Len(text)
    /\ text[SkipWhile(text, SkipWhile(text, i, Alnum), WHITESPACE)] = "\n"

(* the position where the fence body starts *)
BodyStart(text, i) ==
    IF IsMultiline(text, i)
    THEN SkipWhile(text, SkipWhile(text, i, Alnum), WHITESPACE) + 1
    ELSE i

(* buf, the body read up to p, holds only whitespace since its last newline *)
OnlyWhitespace(text, start, p) ==
    \A k \in start..(p - 1) :
        (\A h \in k..(p - 1) : text[h] # "\n") => text[k] \in WHITESPACE

ClosesAt(text, start, p, inline) ==
    StartsWithAt(text, Backticks, p) /\ (inline \/ OnlyWhitespace(text, start, p))

RECURSIVE FenceEnd(_, _, _, _)
(* [p, err]: the position of the closing fence *)
FenceEnd(text, start, p, inline) ==
    IF p > Len(text) THEN [p |-> p, err |-> "F003"]
    ELSE IF ClosesAt(text, start, p, inline) THEN [p |-> p, err |-> ""]
    ELSE IF p + 1 - start > MAX_FENCE_BYTES THEN [p |-> p, err |-> "F999"]
    ELSE FenceEnd(text, start, p + 1, inline)

RECURSIVE RStripBlank(_)
RStripBlank(buf) ==
    IF buf # <<>> /\ buf[Len(buf)] \in WHITESPACE
    THEN RStripBlank(SubSeq(buf, 1, Len(buf) - 1)) ELSE buf

FenceValue(buf, inline) ==
    IF inline THEN buf
    ELSE IF RStripBlank(buf) # <<>> /\ RStripBlank(buf)[Len(RStripBlank(buf))] = "\n"
    THEN SubSeq(RStripBlank(buf), 1, Len(RStripBlank(buf)) - 1)
    ELSE RStripBlank(buf)

Fenced(text, lx, start, end, inline) ==
    IF end.err = "F003" THEN raise_f(lx, "F003", "Unterminated fenced block")
    ELSE IF end.err = "F999" THEN raise_f(lx, "F999", "Fenced block exceeds MAX_FENCE_BYTES")
    ELSE emit(advance(text, lx, end.p + 3 - lx.i), "FENCE",
              FenceValue(SubSeq(text, start, end.p - 1), inline))

_fence(text, lx) ==
    Fenced(text, lx, BodyStart(text, lx.i + 3),
           FenceEnd(text, BodyStart(text, lx.i + 3), BodyStart(text, lx.i + 3),
                    ~IsMultiline(text, lx.i + 3)),
           ~IsMultiline(text, lx.i + 3))

(* _number_or_ident: the position after the number at i, 0 for None *)
AfterSign(text, i) == IF peek(text, i, 0) \in {"+", "-"} THEN i + 1 ELSE i
AfterInt(text, i) == SkipWhile(text, AfterSign(text, i), DIGITS)
AfterFrac(text, i) ==
    IF peek(text, AfterInt(text, i), 0) = "."
    THEN SkipWhile(text, AfterInt(text, i) + 1, DIGITS) ELSE AfterInt(text, i)
has_digit(text, i) ==
    \E k \in AfterSign(text, i)..(AfterFrac(text, i) - 1) : text[k] \in DIGITS
ExpDigits(text, j) == SkipWhile(text, AfterSign(text, j), DIGITS) - AfterSign(text, j)
_number_or_ident(text, i) ==
    IF peek(text, AfterFrac(text, i), 0) \in {"e", "E"}
    THEN IF ExpDigits(text, AfterFrac(text, i) + 1) = 0 THEN 0
         ELSE IF has_digit(text, i)
         THEN SkipWhile(text, AfterSign(text, AfterFrac(text, i) + 1), DIGITS) ELSE 0
    ELSE IF has_digit(text, i) THEN AfterFrac(text, i) ELSE 0

Lexeme(text, lx, j, kind) == emit(Moved(lx, j), kind, SubSeq(text, lx.i, j - 1))

_ident_or_keyword(text, lx) ==
    Lexeme(text, lx, SkipWhile(text, lx.i, IDENT_BODY),
           IF SubSeq(text, lx.i, SkipWhile(text, lx.i, IDENT_BODY) - 1) \in {S_true, S_false}
           THEN "BOOLEAN"
           ELSE IF SubSeq(text, lx.i, SkipWhile(text, lx.i, IDENT_BODY) - 1) = S_null
           THEN "NULL" ELSE "IDENT")

(* the "$" branch; at the end of the input its loops never end *)
ScalarVar(text, lx) ==
    IF peek(text, lx.i, 1) = "{"
    THEN IF Find(text, <<"}">>, lx.i + 2) = 0
         THEN raise_f(lx, "F402B", "Unclosed scalar variable ${...}")
         ELSE Lexeme(text, lx, Find(text, <<"}">>, lx.i + 2) + 1, "STRING")
    ELSE IF peek(text, lx.i, 1) # "" /\ peek(text, lx.i, 1) \notin IDENT_START
    THEN raise_f(lx, "F402", "Undefined scalar variable (bad name)")
    ELSE IF SkipWhile(text, lx.i + 1, IDENT_START \cup DIGITS \cup {"."}) > Len(text)
    THEN raise_f(lx, "NoReturn", "")
    ELSE Lexeme(text, lx, SkipWhile(text, lx.i + 1, IDENT_START \cup DIGITS \cup {"."}), "STRING")

Punctuation ==
    [c \in {"@", "(", ")", "{", "}", "[", "]", ",", ":", "&", "*", "="} |->
        CASE c = "@" -> "AT" [] c = "(" -> "LPAREN" [] c = ")" -> "RPAREN"
          [] c = "{" -> "LBRACE" [] c = "}" -> "RBRACE" [] c = "[" -> "LBRACKET"
          [] c = "]" -> "RBRACKET" [] c = "," -> "COMMA" [] c = ":" -> "COLON"
          [] c = "&" -> "AMP" [] c = "*" -> "STAR" [] OTHER -> "EQUAL"]

Number(text, lx, j, otherwise) ==
    IF j # 0 THEN NotBol(Lexeme(text, lx, j, "NUMBER")) ELSE otherwise

(* one pass of the loop of lex() after the indentation has been handled *)
LexOne(text, lx, ch) ==
    IF ch = "#" THEN Moved(lx, SkipWhile(text, lx.i, {text[k] : k \in 1..Len(text)} \ {"\n"}))
    ELSE IF ch = "\t"
    THEN raise_f(lx, "F002", "Tabs are not allowed for indentation or spacing")
    ELSE IF ch = " " THEN advance(text, lx, 1)
    ELSE IF ch = "\n" THEN advance(text, emit(lx, "NEWLINE", <<>>), 1)
    ELSE IF ch \in DOMAIN Punctuation
    THEN NotBol(advance(text, emit(lx, Punctuation[ch], <<>>), 1))
    ELSE IF ch = "-"
    THEN Number(text, lx,
                IF peek(text, lx.i, 1) \in DIGITS THEN _number_or_ident(text, lx.i) ELSE 0,
                NotBol(advance(text, emit(lx, "DASH", <<>>), 1)))
    ELSE IF ch = "\"" THEN NotBol(_string(text, lx))
    ELSE IF StartsWithAt(text, Backticks, lx.i) THEN NotBol(_fence(text, lx))
    ELSE IF ch = "|" /\ peek(text, lx.i, 1) = ">"
    THEN NotBol(advance(text, emit(lx, "PIPE", <<"|", ">">>), 2))
    ELSE IF ch = "$" THEN NotBol(ScalarVar(text, lx))
    ELSE IF ch = "+" \/ ch \in DIGITS
    THEN Number(text, lx, _number_or_ident(text, lx.i),
                raise_f(lx, "F001", "Invalid character"))
    ELSE IF ch \in IDENT_START THEN NotBol(_ident_or_keyword(text, lx))
    ELSE raise_f(lx, "F001", "Invalid character")

(* flush DEDENTs at EOF *)
Flushed(lx) ==
    emit([lx EXCEPT !.indent_stack = <<0>>,
                    !.tokens = @ \o [k \in 1..(Len(lx.indent_stack) - 1) |->
                                        Token("DEDENT", <<>>)]],
         "EOF", <<>>)

RECURSIVE LexLoop(_, _)
(* if self.bol: self._handle_indent(); then the character at hand, whatever *)
(* self.bol has become                                                      *)
AfterIndent(text, lx) ==
    IF lx.err # "" \/ lx.i > Len(text) THEN lx
    ELSE LexLoop(text, LexOne(text, lx, text[lx.i]))

LexLoop(text, lx) ==
    IF lx.err # "" \/ lx.i > Len(text) THEN lx
    ELSE IF lx.bol THEN AfterIndent(text, _handle_indent(text, lx))
    ELSE LexLoop(text, LexOne(text, lx, text[lx.i]))

(* text.replace("\r\n", "\n").replace("\r", "\n") *)
RECURSIVE Normalized(_)
Normalized(text) ==
    IF text = <<>> THEN <<>>
    ELSE IF Head(text) = "\r"
    THEN <<"\n">> \o Normalized(IF Len(text) > 1 /\ text[2] = "\n"
                               THEN SubSeq(text, 3, Len(text)) ELSE Tail(text))
    ELSE <<Head(text)>> \o Normalized(Tail(text))

Returned(lx) == IF lx.err # "" THEN lx ELSE Flushed(lx)

lex(text) == Returned(LexLoop(Normalized(text), _Lexer))

-----------------------------------------------------------------------------
(* facet/parser.py, the line table that Parser.__init__ builds *)

IND_WIDTH == 2

_calc_indent(s) ==
    IF \E k \in 1..Len(s) : s[k] = "\t" THEN "F002"
    ELSE IF (SkipWhile(s, 1, {" "}) - 1) % IND_WIDTH # 0 THEN "F002"
    ELSE ""

ParserLines(text) ==
    IF \E k \in 1..Len(Split(Normalized(text), "\n")) :
           _calc_indent(Split(Normalized(text), "\n")[k]) # ""
    THEN "F002" ELSE ""

-----------------------------------------------------------------------------
(* canonize(text, host_vars, resolve_mode), stage by stage.                 *)

Fail(code) == /\ pc' = "failed" /\ err' = code /\ msg' = ""

Frame(file, fs, strategy) ==
    [file |-> file, facets |-> fs, i |-> 1, result |-> <<>>, strategy |-> strategy]

(* tokens = lex(text); facets = parse(tokens); then the call of expand_imports *)
Parse ==
    /\ pc = "parse"
    /\ \E r \in {parse(doc)} :
           IF r.err # ""
           THEN Fail(r.err) /\ UNCHANGED <<facets, frames>>
           ELSE /\ facets' = r.v
                /\ frames' = <<Frame(<<>>, r.v, Null)>>
                /\ pc' = "expand"
                /\ UNCHANGED <<err, msg>>
    /\ UNCHANGED <<inputVars, lexVars, walk, lensVars, count, reads, fi, vi, compile_vars, var_types_specs,
                   normal_facets, env, evalOps, out, anchors, result>>

Top == frames[Len(frames)]
SetTop(fr) == [frames EXCEPT ![Len(frames)] = fr]

(* expand_imports, for f in facets: ... else: result.append(f) *)
ExpandCopy ==
    /\ pc = "expand"
    /\ Top.i <= Len(Top.facets)
    /\ Top.facets[Top.i].name # S_import
    /\ frames' = SetTop([Top EXCEPT !.result = Append(@, Top.facets[Top.i]), !.i = @ + 1])
    /\ UNCHANGED <<pc, err, msg, inputVars, lexVars, walk, lensVars, facets, count, reads, canonVars,
                   out, anchors, result>>

(* expand_imports, the checks on an @import before its file is opened, in   *)
(* the order of the code; counted is 1 once _count[0] += 1 has run          *)
Verdict(code, text, counted, full) ==
    [err |-> code, msg |-> text, counted |-> counted, full |-> full]

CheckFull_nodepth(full, fs, roots, stack, cnt) ==
    IF ~_is_allowed(full, roots) THEN Verdict("F601", "Import path not allowed", 0, full)
    ELSE IF ~exists(fs, full) THEN Verdict("F601", "Import not found", 0, full)
    ELSE IF cnt + 1 > MAX_IMPORTS THEN Verdict("F602", "Import count exceeded", 1, full)
    ELSE IF \E i \in 1..Len(stack) : stack[i] = full
    THEN Verdict("F602", "Import cycle detected", 1, full)
    ELSE Verdict("", "", 1, full)

CheckFull(full, fs, roots, stack, cnt) ==
    IF ~_is_allowed(full, roots) THEN Verdict("F601", "Import path not allowed", 0, full)
    ELSE IF ~exists(fs, full) THEN Verdict("F601", "Import not found", 0, full)
    ELSE IF Len(stack) >= MAX_IMPORT_DEPTH
    THEN Verdict("F602", "Import depth exceeded", 0, full)
    ELSE IF cnt + 1 > MAX_IMPORTS THEN Verdict("F602", "Import count exceeded", 1, full)
    ELSE IF \E i \in 1..Len(stack) : stack[i] = full
    THEN Verdict("F602", "Import cycle detected", 1, full)
    ELSE Verdict("", "", 1, full)

CheckPath(path, fs, roots, stack, cnt) ==
    IF Path(path).abs
    THEN Verdict("F601", "Absolute paths are forbidden in @import", 0, <<>>)
    ELSE IF IsUrl(path)
    THEN Verdict("F601", "Network URLs are forbidden in @import", 0, <<>>)
    ELSE Bind(UnderCwd(Path(path)), LAMBDA full : CheckFull(full, fs, roots, stack, cnt))

ImportCheck(f, fs, roots, stack, cnt) ==
    IF ~Has(f.attrs, S_path) \/ ~IsStr(Get(f.attrs, S_path))
    THEN Verdict("F601", "@import path missing or invalid", 0, <<>>)
    ELSE CheckPath(Get(f.attrs, S_path).s, fs, roots, stack, cnt)

(* strategy = f.attrs.get('strategy'); anything but None, 'merge' and       *)
(* 'replace' becomes 'merge'                                                *)
Strategy(f) ==
    IF ~Has(f.attrs, S_strategy) THEN Null
    ELSE IF Get(f.attrs, S_strategy) \in {StrV(S_merge), StrV(S_replace)}
    THEN Get(f.attrs, S_strategy)
    ELSE StrV(S_merge)

(* _stack of the call that the topmost frame stands for *)
Stack == [k \in 1..(Len(frames) - 1) |-> frames[k + 1].file]

(* sub = parse(lex(text)), then the recursive call with _stack + [full] *)
Pushed(f, full, sub) ==
    IF sub.err # ""
    THEN Fail(sub.err) /\ UNCHANGED frames
    ELSE /\ frames' = Append(frames, Frame(full, sub.v, Strategy(f)))
         /\ UNCHANGED <<pc, err, msg>>

(* text = full.read_text(encoding='utf-8') *)
Opened(f, full, at) ==
    IF at \in Dirs
    THEN Fail("IsADirectoryError") /\ UNCHANGED <<frames, reads>>
    ELSE /\ reads' = Append(reads, at)
         /\ \E sub \in {parse(files[at])} : Pushed(f, full, sub)

Imported(f, c) ==
    /\ count' = count + c.counted
    /\ IF c.err # ""
       THEN /\ pc' = "failed" /\ err' = c.err /\ msg' = c.msg
            /\ UNCHANGED <<frames, reads>>
       ELSE \E at \in {Lookup(files, <<>>, c.full).at} : Opened(f, c.full, at)

(* expand_imports, for f in facets: if f.name == 'import': ... up to the    *)
(* recursive call                                                           *)
ExpandImport ==
    /\ pc = "expand"
    /\ Top.i <= Len(Top.facets)
    /\ Top.facets[Top.i].name = S_import
    /\ \E c \in {ImportCheck(Top.facets[Top.i], files, import_roots, Stack, count)} :
          Imported(Top.facets[Top.i], c)
    /\ UNCHANGED <<inputVars, lexVars, walk, lensVars, canonVars, out, anchors, result>>

Merged(r) ==
    IF r.err # ""
    THEN Fail(r.err) /\ UNCHANGED frames
    ELSE /\ frames' = [k \in 1..(Len(frames) - 1) |->
                          IF k = Len(frames) - 1
                          THEN [frames[k] EXCEPT !.result = r.v, !.i = @ + 1]
                          ELSE frames[k]]
         /\ UNCHANGED <<pc, err, msg>>

(* a recursive call returns: result = _merge_facets(result, sub, ...) *)
ExpandReturn ==
    /\ pc = "expand"
    /\ Len(frames) > 1
    /\ Top.i > Len(Top.facets)
    /\ \E r \in {_merge_facets(frames[Len(frames) - 1].result, Top.result, Top.strategy,
                              strict_merge)} : Merged(r)
    /\ UNCHANGED <<inputVars, lexVars, walk, lensVars, canonVars, count, reads, out, anchors, result>>

(* the outermost expand_imports returns: facets = expand_imports(facets, ...) *)
ExpandDone ==
    /\ pc = "expand"
    /\ Len(frames) = 1
    /\ Top.i > Len(Top.facets)
    /\ facets' = Top.result
    /\ frames' = <<>>
    /\ fi' = 1
    /\ vi' = 1
    /\ pc' = "separate"
    /\ UNCHANGED <<err, msg, inputVars, lexVars, walk, lensVars, count, reads, compile_vars, var_types_specs,
                   normal_facets, env, evalOps, out, anchors, result>>

(* for f in facets: @vars (once its entries are done), @var_types or        *)
(* normal_facets.append(f)                                                  *)
InVars == fi <= Len(facets) /\ facets[fi].name = S_vars /\ vi <= Len(facets[fi].body)

Separate ==
    /\ pc = "separate"
    /\ ~InVars
    /\ IF fi > Len(facets)
       THEN /\ pc' = "validate"
            /\ UNCHANGED <<fi, var_types_specs, normal_facets>>
       ELSE /\ fi' = fi + 1
            /\ var_types_specs' = IF facets[fi].name = S_var_types
                                  THEN SpecMap(facets[fi].body, EmptyDict)
                                  ELSE var_types_specs
            /\ normal_facets' = IF facets[fi].name \in {S_vars, S_var_types}
                                THEN normal_facets
                                ELSE Append(normal_facets, facets[fi])
            /\ pc' = pc
    /\ vi' = 1
    /\ UNCHANGED <<err, msg, inputVars, lexVars, walk, lensVars, facets, importVars, compile_vars, env, evalOps,
                   out, anchors, result>>

(* for node in f.body: if isinstance(node, KV):                             *)
(*     compile_vars[key] = _resolve_value_topdown(node.value, compile_vars) *)
Resolved(node, r) ==
    IF r.err # ""
    THEN Fail(r.err) /\ UNCHANGED <<vi, compile_vars>>
    ELSE /\ compile_vars' = Put(compile_vars, node.key, r.v)
         /\ vi' = vi + 1
         /\ UNCHANGED <<pc, err, msg>>

ResolveVar ==
    /\ pc = "separate"
    /\ InVars
    /\ IF IsKV(facets[fi].body[vi])
       THEN Resolved(facets[fi].body[vi],
                     _resolve_value_topdown(facets[fi].body[vi].value, compile_vars))
       ELSE vi' = vi + 1 /\ UNCHANGED <<pc, err, msg, compile_vars>>
    /\ UNCHANGED <<inputVars, lexVars, walk, lensVars, facets, importVars, fi, var_types_specs, normal_facets, env,
                   evalOps, out, anchors, result>>

Validate_skip(vars_map, specs) == ""

(* if var_types_specs: validate_var_types(compile_vars, var_types_specs) *)
ValidateStep(vars_map, specs) ==
    IF specs.es # <<>> THEN validate_var_types(vars_map, specs) ELSE ""

Validate ==
    /\ pc = "validate"
    /\ LET code == ValidateStep(compile_vars, var_types_specs)
       IN  IF code # "" THEN Fail(code)
           ELSE pc' = "env" /\ UNCHANGED <<err, msg>>
    /\ UNCHANGED <<inputVars, lexVars, walk, lensVars, importVars, canonVars, out, anchors, result>>

EnvByMode_all(mode, cvars, hvars) == Update(cvars, hvars.es)

(* env = {**compile_vars, **host_vars} if resolve_mode == 'all' else host_vars *)
EnvByMode(mode, cvars, hvars) ==
    IF mode = "all" THEN Update(cvars, hvars.es) ELSE hvars

ResolveEnv ==
    /\ pc = "env"
    /\ env' = EnvByMode(resolve_mode, compile_vars, host_vars)
    /\ out' = EmptyDict
    /\ fi' = 1
    /\ pc' = "eval"
    /\ UNCHANGED <<err, msg, inputVars, lexVars, walk, lensVars, importVars, facets, vi, compile_vars,
                   var_types_specs, normal_facets, evalOps, anchors, result>>

(* for f in normal_facets: ...; after the loop, out goes to resolve_anchors *)
Evaluated(f, r) ==
    /\ evalOps' = evalOps + r.ops
    /\ IF r.err # ""
       THEN Fail(r.err) /\ UNCHANGED <<fi, out>>
       ELSE /\ out' = IF r.skip THEN out ELSE Put(out, f.name, r.v)
            /\ fi' = fi + 1
            /\ UNCHANGED <<pc, err, msg>>

Evaluate ==
    /\ pc = "eval"
    /\ IF fi > Len(normal_facets)
       THEN /\ pc' = "resolve_collect"
            /\ UNCHANGED <<err, msg, fi, evalOps, out>>
       ELSE Evaluated(normal_facets[fi], EvalFacet(normal_facets[fi], env))
    /\ UNCHANGED <<inputVars, lexVars, walk, lensVars, importVars, facets, vi, compile_vars, var_types_specs,
                   normal_facets, env, anchors, result>>

-----------------------------------------------------------------------------
(* Evaluated trees handed to resolve_anchors: a root map of up to MaxFacets *)
(* facets whose values mix scalars, lists, maps, anchored values and        *)
(* aliases, anchors inside anchored values included.                        *)

MaxFacets == 2

Alias(n) == Dict(<<E(ALIAS_KEY, StrV(n))>>)
Anchor(n, v) == Dict(<<E(ANCHOR_KEY, StrV(n)), E(S_value, v)>>)

AnchorNames == {<<"x">>, <<"y">>}
TreeLeaf == {IntV(1), IntV(2)} \cup {Alias(n) : n \in AnchorNames}
TreeInner ==
    TreeLeaf
    \cup {List(<<Alias(n), Alias(m)>>) : n, m \in AnchorNames}
    \cup {Dict(<<E(<<"p">>, Alias(n))>>) : n \in AnchorNames}
    \cup {Dict(<<E(<<"p">>, IntV(1))>>)}
TreeNode ==
    TreeInner
    \cup {Anchor(n, v) : n \in AnchorNames, v \in TreeInner}
    \cup {Anchor(n, Dict(<<E(<<"p">>, Anchor(m, IntV(2)))>>)) : n, m \in AnchorNames}
    \cup {Dict(<<E(<<"p">>, Anchor(m, u))>>) : m \in AnchorNames, u \in {IntV(1), IntV(2)}}
    \cup {List(<<Anchor(n, u), Alias(m)>>) : n, m \in AnchorNames, u \in {IntV(1), IntV(2)}}

FacetKeys == <<(<<"a">>), (<<"b">>), (<<"c">>), (<<"d">>)>>
TreeOf(f) == Dict([i \in DOMAIN f |-> E(FacetKeys[i], f[i])])

InitAnchors ==
    /\ pc = "resolve_collect"
    /\ err = ""
    /\ msg = ""
    /\ \E n \in 1..MaxFacets : \E f \in [1..n -> TreeNode] : out = TreeOf(f)
    /\ anchors = EmptyDict
    /\ walk = <<>> /\ NoLens
    /\ result = Null
    /\ doc = <<>> /\ host_vars = EmptyDict /\ resolve_mode = "host"
    /\ NoFiles /\ run = 1 /\ first = Null
    /\ NoSource
    /\ facets = <<>> /\ frames = <<>> /\ count = 0 /\ reads = <<>>
    /\ fi = 0 /\ vi = 0 /\ compile_vars = EmptyDict /\ var_types_specs = EmptyDict
    /\ normal_facets = <<>> /\ env = EmptyDict /\ evalOps = 0

NextAnchors == ResolveCollect \/ ResolveSubstitute

SpecAnchors == InitAnchors /\ [][NextAnchors]_vars

(* resolve_anchors with the substitute pass taken call by call.  The        *)
(* interpreter runs the one thread of the call until it returns or raises,  *)
(* so a step that can be taken is taken.                                    *)
(* The trees of the call-by-call pass: the nodes of TreeNode that define    *)
(* anchors by scalars and by aliases (themselves, each other, undefined     *)
(* ones), with the alias alone or inside a list or a map.                   *)
WalkNode ==
    {IntV(1)}
    \cup {Alias(n) : n \in AnchorNames}
    \cup {Anchor(n, IntV(1)) : n \in AnchorNames}
    \cup {Anchor(n, Alias(m)) : n, m \in AnchorNames}
    \cup {Anchor(<<"x">>, List(<<Alias(<<"y">>), Alias(<<"y">>)>>)),
           Anchor(<<"y">>, Dict(<<E(<<"p">>, Alias(<<"x">>))>>)),
           List(<<Anchor(<<"x">>, IntV(2)), Alias(<<"x">>)>>)}

InitWalk ==
    /\ pc = "resolve_collect"
    /\ err = ""
    /\ msg = ""
    /\ \E n \in 1..MaxFacets : \E f \in [1..n -> WalkNode] : out = TreeOf(f)
    /\ anchors = EmptyDict
    /\ walk = <<>> /\ NoLens
    /\ result = Null
    /\ doc = <<>> /\ host_vars = EmptyDict /\ resolve_mode = "host"
    /\ NoFiles /\ run = 1 /\ first = Null
    /\ NoSource
    /\ facets = <<>> /\ frames = <<>> /\ count = 0 /\ reads = <<>>
    /\ fi = 0 /\ vi = 0 /\ compile_vars = EmptyDict /\ var_types_specs = EmptyDict
    /\ normal_facets = <<>> /\ env = EmptyDict /\ evalOps = 0

NextWalk == ResolveCollect \/ WalkStart \/ WalkCall \/ WalkReturn

SpecWalk == InitWalk /\ [][NextWalk]_vars /\ WF_vars(NextWalk)

-----------------------------------------------------------------------------
(* Documents of every body shape: a subject facet with or without a header  *)
(* anchor and attributes, holding up to MaxEntries entries that mix         *)
(* scalars, fences, inline lists and maps, nested blocks, "-" items, value  *)
(* anchors and aliases; further facets come from ContextFacets.             *)

MaxEntries == 2
MaxDocFacets == 2

K_k == <<"k">>
K_j == <<"j">>
N_x == <<"x">>
F_text == Fence(<<"f">>)

ShapeValues ==
    {IntV(1), StrV(<<"s">>), F_text, WStar(N_x), WAmp(N_x, IntV(1)),
     List(<<WAmp(N_x, StrV(<<"s">>)), WStar(N_x)>>),
     List(<<F_text>>),
     Dict(<<E(K_j, F_text)>>),
     Dict(<<E(K_j, WStar(N_x))>>)}

ShapeEntries ==
    {WKV(K_k, w, <<>>) : w \in ShapeValues}
    \cup {WItem(w, Null, <<>>) : w \in {IntV(1), F_text, WStar(N_x), WAmp(N_x, IntV(1))}}
    \cup {WKV(K_j, WAmp(N_x, IntV(1)), <<>>),
          WFenceKV(K_k, F_text, <<>>),
          WBlock(K_k, <<WItem(IntV(1), Null, <<>>)>>),
          WBlock(K_k, <<WItem(F_text, Null, <<>>)>>),
          WBlock(K_k, <<WKV(K_j, IntV(1), <<>>)>>),
          WBlock(K_k, <<WKV(K_j, F_text, <<>>)>>),
          WBlock(K_k, <<WBlock(K_j, <<WItem(IntV(1), Null, <<>>)>>)>>),
          WBlock(K_k, <<WKV(K_j, IntV(1), <<>>), WItem(IntV(1), Null, <<>>)>>)}

ShapeAttrs == {<<>>, <<WAttr(<<"r">>, "STRING", StrV(<<"u">>))>>}
ShapeAnchors == {<<>>, N_x, <<"y">>}

ContextFacets ==
    {WFacet(<<"b">>, N_x, <<>>, <<WKV(K_k, IntV(2), <<>>)>>),
     WFacet(<<"b">>, <<>>, <<>>, <<WKV(K_k, WStar(N_x), <<>>)>>)}

InitCanon ==
    /\ run = 1 /\ first = Null
    /\ err = "" /\ msg = ""
    /\ facets = <<>> /\ frames = <<>> /\ count = 0 /\ reads = <<>>
    /\ fi = 0 /\ vi = 0 /\ compile_vars = EmptyDict /\ var_types_specs = EmptyDict
    /\ normal_facets = <<>> /\ env = EmptyDict /\ evalOps = 0
    /\ out = EmptyDict /\ anchors = EmptyDict /\ walk = <<>> /\ NoLens /\ result = Null

InitShapes ==
    /\ InitCanon
    /\ pc = "parse"
    /\ NoSource
    /\ NoFiles
    /\ host_vars = EmptyDict
    /\ resolve_mode = "host"
    /\ \E n \in 1..MaxEntries : \E es \in [1..n -> ShapeEntries] :
       \E a \in ShapeAnchors : \E at \in ShapeAttrs :
       \E m \in 0..(MaxDocFacets - 1) : \E cs \in [1..m -> ContextFacets] :
       \E lead \in BOOLEAN :
          LET subject == <<WFacet(<<"a">>, a, at, es)>>
          IN  doc = IF lead THEN subject \o cs ELSE cs \o subject

NextShapes ==
    \/ Parse \/ ExpandCopy \/ ExpandDone \/ Separate \/ Validate \/ ResolveEnv
    \/ Evaluate \/ ResolveCollect \/ ResolveSubstitute

SpecShapes == InitShapes /\ [][NextShapes]_vars

-----------------------------------------------------------------------------
(* SpecLexer: lex(text) of lexer.py and Parser(text) of facet/parser.py on  *)
(* documents of up to MaxLines lines; a line is some leading spaces, a body *)
(* and a newline.  The bodies are an identifier, the opening or closing of  *)
(* a triple-quoted string, the opening or closing of a fenced block, a      *)
(* character no token starts with, and nothing (a blank line).             *)

MaxLines == 3

LineIndents == {0, 1, 2, 3, 4}
LineBodies == {<<"a">>, Triple, Backticks, <<"%">>, <<>>}
Spaces(n) == [k \in 1..n |-> " "]
SourceLine(n, body) == Spaces(n) \o body \o <<"\n">>
SourceLines == {SourceLine(n, body) : n \in LineIndents, body \in LineBodies}

RECURSIVE Joined(_)
Joined(ls) == IF ls = <<>> THEN <<>> ELSE Head(ls) \o Joined(Tail(ls))

InitLexer ==
    /\ InitCanon
    /\ pc = "lex"
    /\ NoFiles
    /\ doc = <<>> /\ host_vars = EmptyDict /\ resolve_mode = "host"
    /\ \E n \in 1..MaxLines : \E ls \in [1..n -> SourceLines] : source = Joined(ls)
    /\ tokens = <<>>
    /\ lines = ""
    /\ lexer = Null
    /\ parser = Null

(* tokens = lex(text) *)
Lex ==
    /\ pc = "lex"
    /\ \E lx \in {lex(source)} :
           IF lx.err # ""
           THEN /\ pc' = "failed" /\ err' = lx.err /\ msg' = lx.msg
                /\ UNCHANGED tokens
           ELSE /\ pc' = "lexed"
                /\ tokens' = lx.tokens
                /\ UNCHANGED <<err, msg>>
    /\ UNCHANGED <<inputVars, source, lines, lexer, parser, walk, lensVars, importVars, canonVars, out, anchors, result>>

(* Parser(text): self.lines = [Line(s, i + 1) for i, s in enumerate(...)] *)
ParserInit ==
    /\ lines = ""
    /\ source # <<>>
    /\ lines' = IF ParserLines(source) = "" THEN "built" ELSE ParserLines(source)
    /\ UNCHANGED <<pc, err, msg, inputVars, source, tokens, lexer, parser, walk, lensVars, importVars, canonVars, out, anchors,
                   result>>

NextLexer == Lex \/ ParserInit

SpecLexer == InitLexer /\ [][NextLexer]_vars

-----------------------------------------------------------------------------
(* lex(text), one pass of its loops at a time.  The text is up to MaxText   *)
(* lines: the identifier a indented by 0, 1, 2, 4 and 6 spaces, a blank     *)
(* line with and without spaces, and a line that opens or closes a fenced   *)
(* block.  pc is "loop" at the top of the while loop of lex(), "dedent" at  *)
(* the top of the while loop of _handle_indent, and "lexed" or "failed"     *)
(* when lex() has returned or raised.                                       *)

MaxText == 4

StepLines ==
    {SourceLine(n, <<"a">>) : n \in {0, 1, 2, 4, 6}}
    \cup {SourceLine(0, <<>>), SourceLine(2, <<>>), SourceLine(0, Backticks)}

InitLexSteps ==
    /\ InitCanon
    /\ pc = "lex"
    /\ NoFiles
    /\ doc = <<>> /\ host_vars = EmptyDict /\ resolve_mode = "host"
    /\ \E n \in 1..MaxText : \E ls \in [1..n -> StepLines] : source = Joined(ls)
    /\ tokens = <<>>
    /\ lines = ""
    /\ lexer = Null
    /\ parser = Null

Lexing(lx, level) == [self |-> lx, level |-> level]
StackTop(lx) == lx.indent_stack[Len(lx.indent_stack)]

(* the rest of a pass of the loop of lex() once _handle_indent has returned *)
AfterHandled(text, lx) ==
    IF lx.err # "" \/ lx.i > Len(text) THEN lx ELSE LexOne(text, lx, text[lx.i])

(* one pass of the loop of lex() *)
LexPass(text, lx) ==
    IF lx.bol THEN AfterHandled(text, _handle_indent(text, lx))
    ELSE LexOne(text, lx, text[lx.i])

(* _handle_indent reaches its branch "elif level < cur" *)
Dedents(text, lx) ==
    LET j == SkipWhile(text, lx.i, {" "}) IN
    /\ lx.bol
    /\ peek(text, j, 0) \notin {"\t", "\n"}
    /\ ~lx.in_fence
    /\ (j - lx.i) % 2 = 0
    /\ (j - lx.i) \div 2 < StackTop(lx)

(* the pass is over: lex() raises, or goes back to the top of its loop *)
PassOver(lx) ==
    /\ lexer' = Lexing(lx, 0)
    /\ IF lx.err # ""
       THEN pc' = "failed" /\ err' = lx.err /\ msg' = lx.msg
       ELSE pc' = "loop" /\ UNCHANGED <<err, msg>>

(* lx = _Lexer(text.replace("\r\n", "\n").replace("\r", "\n")) *)
LexBegin ==
    /\ pc = "lex"
    /\ lexer' = Lexing(_Lexer, 0)
    /\ pc' = "loop"
    /\ UNCHANGED <<err, msg, inputVars, source, tokens, lines, parser, walk, lensVars, importVars,
                   canonVars, out, anchors, result>>

(* while self.i < len(self.src): one pass, up to the loop of _handle_indent *)
LexIterate ==
    /\ pc = "loop"
    /\ lexer.self.i <= Len(Normalized(source))
    /\ LET text == Normalized(source)
           lx == lexer.self
           j == SkipWhile(text, lx.i, {" "})
       IN  IF Dedents(text, lx)
           THEN /\ lexer' = Lexing(NotBol(Moved(lx, j)), (j - lx.i) \div 2)
                /\ pc' = "dedent"
                /\ UNCHANGED <<err, msg>>
           ELSE PassOver(LexPass(text, lx))
    /\ UNCHANGED <<inputVars, source, tokens, lines, parser, walk, lensVars, importVars, canonVars,
                   out, anchors, result>>

(* while self.indent_stack and self.indent_stack[-1] > level: pop, emit;    *)
(* after the loop the test of the level reached and the rest of the pass    *)
LexDedent ==
    /\ pc = "dedent"
    /\ LET lx == lexer.self IN
       IF lx.indent_stack # <<>> /\ StackTop(lx) > lexer.level
       THEN /\ lexer' = Lexing(emit([lx EXCEPT !.indent_stack = SubSeq(@, 1, Len(@) - 1)],
                                    "DEDENT", <<>>),
                               lexer.level)
            /\ UNCHANGED <<pc, err, msg>>
       ELSE PassOver(AfterHandled(Normalized(source), Dedented(lx, lexer.level)))
    /\ UNCHANGED <<inputVars, source, tokens, lines, parser, walk, lensVars, importVars, canonVars,
                   out, anchors, result>>

(* while len(self.indent_stack) > 1: self.indent_stack.pop(); emit(DEDENT) *)
LexFlush ==
    /\ pc = "loop"
    /\ lexer.self.i > Len(Normalized(source))
    /\ Len(lexer.self.indent_stack) > 1
    /\ lexer' = Lexing(emit([lexer.self EXCEPT !.indent_stack = SubSeq(@, 1, Len(@) - 1)],
                            "DEDENT", <<>>),
                       lexer.level)
    /\ UNCHANGED <<pc, err, msg, inputVars, source, tokens, lines, parser, walk, lensVars, importVars,
                   canonVars, out, anchors, result>>

(* self.emit(TokKind.EOF); return self.tokens *)
LexReturn ==
    /\ pc = "loop"
    /\ lexer.self.i > Len(Normalized(source))
    /\ Len(lexer.self.indent_stack) <= 1
    /\ lexer' = Lexing(emit(lexer.self, "EOF", <<>>), lexer.level)
    /\ tokens' = lexer'.self.tokens
    /\ pc' = "lexed"
    /\ UNCHANGED <<err, msg, inputVars, source, lines, parser, walk, lensVars, importVars, canonVars,
                   out, anchors, result>>

NextLexSteps == LexBegin \/ LexIterate \/ LexDedent \/ LexFlush \/ LexReturn

SpecLexSteps == InitLexSteps /\ [][NextLexSteps]_vars

-----------------------------------------------------------------------------
(* parser.py, one token at a time.  parser is the Parser at work: i, the    *)
(* index of cur() (from 1), the active calls of its methods, innermost      *)
(* last, the facets parse() has collected and the value the last call       *)
(* returned.  An active call holds the place it stands at, the local first, *)
(* the items of its block and, for a loop, the value i had when the         *)
(* iteration at hand began (start; inner for the loop over the arguments of *)
(* a lens).  The values the parser builds do not steer it and are left out: *)
(* a facet is kept as its name, a block as the kind and the key of each of  *)
(* its items, from which _collapse_block decides.  The interpreter allows   *)
(* RecursionLimit active calls and raises RecursionError at the next one.   *)

RecursionLimit == 8

EntryOf(fn) ==
    CASE fn = "parse_facet" -> "name"
      [] fn \in {"parse_value", "parse_inline_map", "parse_inline_list"} -> "start"
      [] OTHER -> "loop"

Activation(fn) ==
    [fn |-> fn, at |-> EntryOf(fn), first |-> TRUE, items |-> <<>>, start |-> 0, inner |-> 0,
     name |-> <<>>]

(* Parser(tokens): self.i = 0, and the call of parse() *)
Parser == [i |-> 1, stack |-> <<Activation("parse")>>, facets |-> <<>>, ret |-> <<>>]

Here(p) == p.stack[Len(p.stack)]
Now(p, at) == [p EXCEPT !.stack[Len(p.stack)].at = at]
Eat(p) == [p EXCEPT !.i = @ + 1]
Begin(p) == [p EXCEPT !.stack[Len(p.stack)].start = p.i]
BeginInner(p) == [p EXCEPT !.stack[Len(p.stack)].inner = p.i]
NotFirst(p) == [p EXCEPT !.stack[Len(p.stack)].first = FALSE]
Named_(p, name) == [p EXCEPT !.stack[Len(p.stack)].name = name]

(* a call of fn whose caller goes on at back *)
Invoke(p, fn, back) ==
    IF Len(p.stack) >= RecursionLimit THEN Raise("RecursionError")
    ELSE Ok([Now(p, back) EXCEPT !.stack = Append(@, Activation(fn))])

(* return v *)
Leave(p, v) == Ok([p EXCEPT !.stack = SubSeq(@, 1, Len(@) - 1), !.ret = v])

(* self.expect(kind), after which the call stands at `at` *)
Expect(p, t, kind, at) == IF t.kind # kind THEN Raise("F001") ELSE Ok(Now(Eat(p), at))

Literals == {"STRING", "NUMBER", "BOOLEAN", "NULL"}

(* Parser.parse *)
parse_(p, t) ==
    IF Here(p).at = "append"
    THEN Ok(Now([p EXCEPT !.facets = Append(@, p.ret)], "loop"))
    ELSE IF t.kind = "EOF" THEN Leave(p, p.facets)
    ELSE IF t.kind \in {"NEWLINE", "DEDENT"} THEN Ok(Eat(Begin(p)))
    ELSE IF t.kind = "AT" THEN Invoke(Eat(Begin(p)), "parse_facet", "append")
    ELSE Raise("F001")

(* Parser.parse_facet *)
FacetNewline(p, t) == Expect(p, t, "NEWLINE", "body")
FacetAttrs(p, t) ==
    IF t.kind = "LPAREN" THEN Invoke(Eat(p), "parse_attrs", "rparen") ELSE FacetNewline(p, t)
ImportNewline(p, t) ==
    IF t.kind # "NEWLINE" THEN Raise("F001") ELSE Leave(Eat(p), Here(p).name)

parse_facet_(p, t) ==
    CASE Here(p).at = "name" ->
            IF t.kind # "IDENT" THEN Raise("F001")
            ELSE Ok(Now(Eat(Named_(p, t.value)),
                        IF t.value = S_import THEN "import" ELSE "anchor"))
      [] Here(p).at = "import" ->
            IF t.kind = "LPAREN" THEN Invoke(Eat(p), "parse_attrs", "import_rparen")
            ELSE IF t.kind = "STRING" THEN Ok(Now(Eat(p), "import_newline"))
            ELSE ImportNewline(p, t)
      [] Here(p).at = "import_rparen" -> Expect(p, t, "RPAREN", "import_newline")
      [] Here(p).at = "import_newline" -> ImportNewline(p, t)
      [] Here(p).at = "anchor" ->
            IF t.kind = "AMP" THEN Ok(Now(Eat(p), "anchor_name")) ELSE FacetAttrs(p, t)
      [] Here(p).at = "anchor_name" -> Expect(p, t, "IDENT", "attrs")
      [] Here(p).at = "attrs" -> FacetAttrs(p, t)
      [] Here(p).at = "rparen" -> Expect(p, t, "RPAREN", "newline")
      [] Here(p).at = "newline" -> FacetNewline(p, t)
      [] Here(p).at = "body" ->
            IF t.kind = "INDENT" THEN Invoke(Eat(p), "parse_block", "done")
            ELSE IF t.kind \in {"IDENT", "NEWLINE", "DEDENT"}
            THEN Invoke(p, "parse_block_same_level", "done")
            ELSE Raise("F001")
      [] OTHER -> Leave(p, Here(p).name)

(* Parser.parse_attrs with parse_attr_value *)
AttrName(p, t) == Expect(p, t, "IDENT", "equal")

parse_attrs_(p, t) ==
    CASE Here(p).at = "loop" ->
            IF t.kind = "RPAREN" THEN Leave(p, <<>>)
            ELSE IF ~Here(p).first
            THEN Expect(Begin(p), t, "COMMA", "name")
            ELSE AttrName(NotFirst(Begin(p)), t)
      [] Here(p).at = "name" -> AttrName(p, t)
      [] Here(p).at = "equal" -> Expect(p, t, "EQUAL", "value")
      [] OTHER ->
            IF t.kind \notin Literals \cup {"IDENT"} THEN Raise("F301")
            ELSE IF t.kind \in {"STRING", "IDENT"} /\ AttrInterpolates(StrV(t.value))
            THEN Raise("F304")
            ELSE Ok(Now(Eat(p), "loop"))

(* Parser.parse_block and Parser.parse_block_same_level *)
Appended(p, item) == [p EXCEPT !.stack[Len(p.stack)].items = Append(@, item)]

ItemOrKey(p, t) ==
    IF t.kind = "DASH" THEN Invoke(Eat(p), "parse_value", "item_if")
    ELSE IF t.kind # "IDENT" THEN Raise("F001")
    ELSE Ok(Now(Eat(Named_(p, t.value)), "colon"))

(* if self.cur().kind not in (EOF, DEDENT, AT): self.expect(NEWLINE) *)
Ended(p, t, item) ==
    IF t.kind \in {"EOF", "DEDENT", "AT"} THEN Ok(Now(Appended(p, item), "loop"))
    ELSE IF t.kind # "NEWLINE" THEN Raise("F001")
    ELSE Ok(Now(Appended(Eat(p), item), "loop"))

FenceDedent(p, t) ==
    Ok(Now(Appended(IF t.kind = "DEDENT" THEN Eat(p) ELSE p, KV(Here(p).name, Null, <<>>)),
           "loop"))

Collapsed(p, col) ==
    IF col.err # "" THEN Raise(col.err)
    ELSE Ok(Now(Appended(p, KV(Here(p).name, Null, <<>>)), "loop"))

BlockStep(p, t, same) ==
    CASE Here(p).at = "loop" ->
            IF same /\ t.kind \in {"AT", "EOF"} THEN Leave(p, Here(p).items)
            ELSE IF t.kind = "DEDENT"
            THEN (IF same THEN Ok(Eat(Begin(p))) ELSE Leave(Eat(p), Here(p).items))
            ELSE IF t.kind = "NEWLINE" THEN Ok(Now(Eat(Begin(p)), "after_newline"))
            ELSE ItemOrKey(Begin(p), t)
      [] Here(p).at = "after_newline" ->
            IF t.kind \in {"AT", "EOF"} THEN Leave(p, Here(p).items) ELSE Ok(Now(p, "loop"))
      [] Here(p).at = "item_if" ->
            IF t.kind = "LPAREN" THEN Ok(Now(Eat(p), "if_name"))
            ELSE Invoke(p, "parse_lenses", "item_end")
      [] Here(p).at = "if_name" ->
            IF t.kind # "IDENT" THEN Raise("F001")
            ELSE IF t.value # S_if THEN Raise("F305")
            ELSE Ok(Now(Eat(p), "if_equal"))
      [] Here(p).at = "if_equal" -> Expect(p, t, "EQUAL", "if_expr")
      [] Here(p).at = "if_expr" -> Expect(p, t, "STRING", "if_rparen")
      [] Here(p).at = "if_rparen" ->
            IF t.kind # "RPAREN" THEN Raise("F001")
            ELSE Invoke(Eat(p), "parse_lenses", "item_end")
      [] Here(p).at = "item_end" -> Ended(p, t, ListItem(Null, Null, <<>>))
      [] Here(p).at = "colon" -> Expect(p, t, "COLON", "after_colon")
      [] Here(p).at = "after_colon" ->
            IF t.kind = "NEWLINE" THEN Ok(Now(Eat(p), "nested"))
            ELSE Invoke(p, "parse_value", "kv_lenses")
      [] Here(p).at = "nested" ->
            IF t.kind = "INDENT" THEN Ok(Now(Eat(p), "indented")) ELSE Raise("F001")
      [] Here(p).at = "indented" ->
            IF t.kind = "FENCE" THEN Invoke(p, "parse_value", "fence_lenses")
            ELSE Invoke(p, "parse_block", "collapse")
      [] Here(p).at = "fence_lenses" -> Invoke(p, "parse_lenses", "fence_newline")
      [] Here(p).at = "fence_newline" ->
            IF t.kind = "NEWLINE" THEN Ok(Now(Eat(p), "fence_dedent")) ELSE FenceDedent(p, t)
      [] Here(p).at = "fence_dedent" -> FenceDedent(p, t)
      [] Here(p).at = "collapse" -> Collapsed(p, _collapse_block(p.ret))
      [] Here(p).at = "kv_lenses" -> Invoke(p, "parse_lenses", "kv_end")
      [] OTHER -> Ended(p, t, KV(Here(p).name, Null, <<>>))

parse_block_(p, t) == BlockStep(p, t, FALSE)
parse_block_same_level(p, t) == BlockStep(p, t, TRUE)

(* Parser.parse_value *)
parse_value_(p, t) ==
    CASE Here(p).at = "start" ->
            IF t.kind = "AMP" THEN Ok(Now(Eat(p), "anchor_name"))
            ELSE IF t.kind = "STAR" THEN Ok(Now(Eat(p), "alias_name"))
            ELSE IF t.kind \in Literals \cup {"FENCE", "IDENT"} THEN Leave(Eat(p), <<>>)
            ELSE IF t.kind = "LBRACE" THEN Invoke(p, "parse_inline_map", "return")
            ELSE IF t.kind = "LBRACKET" THEN Invoke(p, "parse_inline_list", "return")
            ELSE Raise("F101")
      [] Here(p).at = "anchor_name" ->
            IF t.kind # "IDENT" THEN Raise("F001")
            ELSE Invoke(Eat(p), "parse_value", "return")
      [] Here(p).at = "alias_name" ->
            IF t.kind # "IDENT" THEN Raise("F001") ELSE Leave(Eat(p), <<>>)
      [] OTHER -> Leave(p, <<>>)

(* Parser.parse_inline_map *)
MapKey(p, t) == Expect(p, t, "IDENT", "colon")

parse_inline_map(p, t) ==
    CASE Here(p).at = "start" -> Expect(p, t, "LBRACE", "loop")
      [] Here(p).at = "loop" ->
            IF t.kind = "RBRACE" THEN Leave(Eat(p), <<>>)
            ELSE IF ~Here(p).first THEN Expect(Begin(p), t, "COMMA", "key")
            ELSE MapKey(NotFirst(Begin(p)), t)
      [] Here(p).at = "key" -> MapKey(p, t)
      [] OTHER ->
            IF t.kind # "COLON" THEN Raise("F001")
            ELSE Invoke(Eat(p), "parse_value", "loop")

(* Parser.parse_inline_list *)
parse_inline_list(p, t) ==
    IF Here(p).at = "start" THEN Expect(p, t, "LBRACKET", "loop")
    ELSE IF t.kind = "RBRACKET" THEN Leave(Eat(p), <<>>)
    ELSE IF Here(p).first THEN Invoke(NotFirst(Begin(p)), "parse_value", "loop")
    ELSE IF t.kind # "COMMA" THEN Raise("F001")
    ELSE Invoke(Eat(Begin(p)), "parse_value", "loop")

(* Parser.parse_lenses; next is self.toks[self.i+1] *)
LensArg(p, t, next) ==
    IF t.kind = "IDENT" /\ next.kind = "EQUAL" THEN Ok(Now(Eat(p), "kw_equal"))
    ELSE IF t.kind \in Literals \cup {"IDENT"} THEN Ok(Now(Eat(p), "args"))
    ELSE Raise("F101")

parse_lenses(p, t, next) ==
    CASE Here(p).at = "loop" ->
            IF t.kind = "PIPE" THEN Ok(Now(Eat(Begin(p)), "name")) ELSE Leave(p, <<>>)
      [] Here(p).at = "name" -> Expect(p, t, "IDENT", "paren")
      [] Here(p).at = "paren" ->
            IF t.kind = "LPAREN"
            THEN Ok(Now(Eat([p EXCEPT !.stack[Len(p.stack)].first = TRUE,
                                      !.stack[Len(p.stack)].inner = 0]), "args"))
            ELSE Ok(Now(p, "loop"))
      [] Here(p).at = "args" ->
            IF t.kind = "RPAREN" THEN Ok(Now(Eat(p), "loop"))
            ELSE IF ~Here(p).first THEN Expect(BeginInner(p), t, "COMMA", "arg")
            ELSE LensArg(NotFirst(BeginInner(p)), t, next)
      [] Here(p).at = "arg" -> LensArg(p, t, next)
      [] Here(p).at = "kw_equal" -> Expect(p, t, "EQUAL", "kw_value")
      [] OTHER ->
            IF t.kind \in Literals THEN Ok(Now(Eat(p), "args")) ELSE Raise("F101")

-----------------------------------------------------------------------------
(* parse(tokens), one token at a time.  tokens is the part of the token     *)
(* list the parser has looked at: the list begins with one of the Openings  *)
(* and goes on with up to MaxToks tokens of any kind, then with the DEDENT  *)
(* tokens that balance its INDENT tokens and with EOF.  pc is "parsing",    *)
(* then "parsed" or "failed".                                               *)

MaxToks == 5

Bare(kind) == Token(kind, <<>>)
T_ident == Token("IDENT", <<"a">>)
T_number == Token("NUMBER", <<"1">>)
T_string == Token("STRING", <<"s">>)
T_pipe == Token("PIPE", <<"|", ">">>)

TokenPool ==
    {Bare(kind) : kind \in {"AT", "NEWLINE", "INDENT", "DEDENT", "LPAREN", "RPAREN", "LBRACE",
                            "RBRACE", "LBRACKET", "RBRACKET", "COMMA", "COLON", "EQUAL",
                            "DASH", "AMP", "STAR", "EOF"}}
    \cup {T_ident, Token("IDENT", S_if), Token("IDENT", S_import), T_string,
          Token("STRING", <<"$", "h">>), T_number, Token("BOOLEAN", S_true),
          Token("NULL", S_null), Token("FENCE", <<"f">>), T_pipe}

Header == <<Bare("AT"), T_ident, Bare("NEWLINE")>>
Indented_ == Header \o <<Bare("INDENT")>>
Openings ==
    {<<>>,
     Header,
     Indented_,
     <<Bare("AT"), T_ident, Bare("LPAREN")>>,
     <<Bare("AT"), Token("IDENT", S_import)>>,
     Indented_ \o <<Bare("DASH"), T_number>>,
     Indented_ \o <<T_ident, Bare("COLON")>>,
     Indented_ \o <<T_ident, Bare("COLON"), Bare("LBRACKET"), Bare("LBRACKET")>>,
     Indented_ \o <<T_ident, Bare("COLON"), Bare("NEWLINE"), Bare("INDENT")>>,
     Indented_ \o <<T_ident, Bare("COLON"), T_number, T_pipe, T_ident, Bare("LPAREN")>>,
     Header \o <<T_ident, Bare("COLON"), T_number, T_pipe, T_ident, Bare("LPAREN"), T_ident>>}

Count(toks, kind) == Cardinality({j \in 1..Len(toks) : toks[j].kind = kind})
Open(toks) == Count(toks, "INDENT") - Count(toks, "DEDENT")
Ended_(toks) == toks # <<>> /\ toks[Len(toks)].kind = "EOF"

(* the tokens that came after the opening *)
Supplied(toks) ==
    LET lens == {Len(o) : o \in {x \in Openings : IsPrefix(x, toks)}}
    IN  Len(toks) - (CHOOSE n \in lens : \A m \in lens : m <= n)

(* the tokens that can follow toks in a list lex() returns *)
Following(toks) ==
    IF Supplied(toks) >= MaxToks
    THEN {IF Open(toks) > 0 THEN Bare("DEDENT") ELSE Bare("EOF")}
    ELSE {t \in TokenPool : /\ t.kind = "DEDENT" => Open(toks) > 0
                            /\ t.kind = "EOF" => Open(toks) = 0}

InitParser ==
    /\ InitCanon
    /\ pc = "parsing"
    /\ NoFiles
    /\ doc = <<>> /\ host_vars = EmptyDict /\ resolve_mode = "host"
    /\ source = <<>>
    /\ tokens \in Openings
    /\ lines = ""
    /\ lexer = Null
    /\ parser = Parser

(* the places of a call where it looks at no token *)
Reads(f) ==
    ~ \/ f.fn = "parse" /\ f.at = "append"
      \/ f.fn = "parse_facet" /\ f.at = "done"
      \/ f.fn \in {"parse_block", "parse_block_same_level"}
         /\ f.at \in {"fence_lenses", "collapse", "kv_lenses"}
      \/ f.fn = "parse_value" /\ f.at = "return"

(* self.toks[self.i+1] is read where an argument of a lens begins with IDENT *)
LooksAhead(p, toks) ==
    /\ Here(p).fn = "parse_lenses"
    /\ Here(p).at = "arg" \/ (Here(p).at = "args" /\ Here(p).first)
    /\ p.i <= Len(toks)
    /\ toks[p.i].kind = "IDENT"

(* the highest index of self.toks the next step reads, 0 when it reads none *)
Needed(p, toks) ==
    IF ~Reads(Here(p)) THEN 0 ELSE IF LooksAhead(p, toks) THEN p.i + 1 ELSE p.i

NoToken == Bare("")
cur == IF Reads(Here(parser)) THEN tokens[parser.i] ELSE NoToken
following == IF LooksAhead(parser, tokens) THEN tokens[parser.i + 1] ELSE NoToken

(* the next token of the list comes into view *)
Supply ==
    /\ pc = "parsing"
    /\ Needed(parser, tokens) > Len(tokens)
    /\ ~Ended_(tokens)
    /\ \E t \in Following(tokens) : tokens' = Append(tokens, t)
    /\ UNCHANGED <<pc, err, msg, inputVars, source, lines, lexer, parser, walk, lensVars,
                   importVars, canonVars, out, anchors, result>>

In(fn) ==
    /\ pc = "parsing"
    /\ Here(parser).fn = fn
    /\ Needed(parser, tokens) <= Len(tokens)

(* the step raises, returns from parse(), or leaves the parser further on *)
Stepped(r) ==
    /\ IF r.err # ""
       THEN pc' = "failed" /\ err' = r.err /\ UNCHANGED <<parser, result>>
       ELSE IF r.v.stack = <<>>
       THEN /\ pc' = "parsed"
            /\ result' = List([j \in 1..Len(r.v.ret) |-> StrV(r.v.ret[j])])
            /\ parser' = r.v
            /\ UNCHANGED err
       ELSE parser' = r.v /\ UNCHANGED <<pc, err, result>>
    /\ UNCHANGED <<msg, inputVars, source, tokens, lines, lexer, walk, lensVars, importVars,
                   canonVars, out, anchors>>

ParseLoop == In("parse") /\ Stepped(parse_(parser, cur))
ParseFacet == In("parse_facet") /\ Stepped(parse_facet_(parser, cur))
ParseAttrs == In("parse_attrs") /\ Stepped(parse_attrs_(parser, cur))
ParseBlock == In("parse_block") /\ Stepped(parse_block_(parser, cur))
ParseBlockSameLevel ==
    In("parse_block_same_level") /\ Stepped(parse_block_same_level(parser, cur))
ParseValue == In("parse_value") /\ Stepped(parse_value_(parser, cur))
ParseInlineMap == In("parse_inline_map") /\ Stepped(parse_inline_map(parser, cur))
ParseInlineList == In("parse_inline_list") /\ Stepped(parse_inline_list(parser, cur))
ParseLenses == In("parse_lenses") /\ Stepped(parse_lenses(parser, cur, following))

NextParser ==
    \/ Supply \/ ParseLoop \/ ParseFacet \/ ParseAttrs \/ ParseBlock \/ ParseBlockSameLevel
    \/ ParseValue \/ ParseInlineMap \/ ParseInlineList \/ ParseLenses

SpecParser == InitParser /\ [][NextParser]_vars
SpecParserFair == SpecParser /\ WF_vars(NextParser)

-----------------------------------------------------------------------------
(* eval_if on its own: if-expressions written from literals, names that     *)
(* resolve and names that do not, alone, negated, in parentheses, compared  *)
(* and joined by and / or, in two environments of which the second holds a  *)
(* key named null.                                                          *)

ExprEnvs ==
    {Dict(<<E(<<"t">>, BoolV(TRUE)), E(<<"f">>, BoolV(FALSE)), E(<<"n">>, Null),
            E(<<"a">>, Dict(<<E(<<"b">>, IntV(1))>>))>>),
     Dict(<<E(<<"t">>, StrV(<<"s">>)), E(<<"f">>, IntV(0)), E(<<"n">>, Null),
            E(S_null, IntV(1)), E(<<"a">>, Dict(<<E(<<"b">>, Null)>>))>>)}

ExprLiterals == {S_true, S_false, S_null, <<"0">>, <<"1">>, <<DQuote, "s", DQuote>>,
                 <<SQuote, SQuote>>}
ExprNames == {<<"t">>, <<"f">>, <<"n">>, <<"a", ".", "b">>, <<"a", ".", "c">>, <<"u">>}
ExprAtoms == ExprLiterals \cup ExprNames
ExprCompared == {S_null, <<"1">>, <<"t">>, <<"n">>, <<"a", ".", "b">>, <<"a", ".", "c">>}

Words(ws) == Join(ws, <<" ">>)

ExprOperands ==
    ExprAtoms
    \cup {Words(<<S_not, x>>) : x \in {S_true, <<"f">>, <<"u">>}}
    \cup {<<"(">> \o x \o <<")">> : x \in {S_false, <<"t">>}}
    \cup {Words(<<x, op, y>>) : x, y \in ExprCompared, op \in {<<"=", "=">>}}
    \cup {Words(<<x, op, <<"1">> >>) : x \in ExprCompared, op \in {<<"<">>, <<"!", "=">>, S_in}}

ExprTexts ==
    {<<>>, <<" ">>}
    \cup ExprOperands
    \cup {Words(<<x, op, y>>) : x, y \in ExprOperands, op \in {S_and, S_or}}

InitExpr ==
    /\ pc = "eval_if"
    /\ err = "" /\ msg = ""
    /\ source \in ExprTexts
    /\ tokens = <<>>
    /\ lines = ""
    /\ lexer = Null
    /\ parser = Null
    /\ env \in ExprEnvs
    /\ result = Null
    /\ doc = <<>> /\ host_vars = EmptyDict /\ resolve_mode = "host"
    /\ NoFiles /\ run = 1 /\ first = Null
    /\ facets = <<>> /\ frames = <<>> /\ count = 0 /\ reads = <<>>
    /\ fi = 0 /\ vi = 0 /\ compile_vars = EmptyDict /\ var_types_specs = EmptyDict
    /\ normal_facets = <<>> /\ evalOps = 0
    /\ out = EmptyDict /\ anchors = EmptyDict /\ walk = <<>> /\ NoLens

(* s = (expr or "").strip(); tokens = re.findall(...) *)
ExprTokens ==
    /\ pc = "eval_if"
    /\ \E toks \in {FindAll(Strip(source), 1)} :
          IF toks = <<>>
          THEN /\ result' = BoolV(TRUE)
               /\ pc' = "done"
               /\ UNCHANGED tokens
          ELSE /\ tokens' = toks
               /\ pc' = "parse_or"
               /\ UNCHANGED result
    /\ UNCHANGED <<err, msg, inputVars, source, lines, lexer, parser, walk, lensVars, importVars, canonVars, out, anchors>>

(* result = parse_or(); the trailing-token test; return bool(result) *)
ExprParse ==
    /\ pc = "parse_or"
    /\ \E r \in {Finished(tokens, parse_or(tokens, 1, env))} :
          IF r.err # ""
          THEN /\ pc' = "failed"
               /\ err' = r.err
               /\ UNCHANGED result
          ELSE /\ pc' = "done"
               /\ result' = r.v
               /\ UNCHANGED err
    /\ UNCHANGED <<msg, inputVars, lexVars, walk, lensVars, importVars, canonVars, out, anchors>>

NextExpr == ExprTokens \/ ExprParse

SpecExpr == InitExpr /\ [][NextExpr]_vars

-----------------------------------------------------------------------------
(* Imports against the sandbox.  The working directory /w is a root (or its *)
(* subdirectory /w/d is); /o lies outside, /w/l is a link to it and /w/H:   *)
(* is a directory.  Documents and files import relative, absolute, URL,     *)
(* dotted, linked and missing paths, up to MaxImports directives each.      *)

MaxImports == 2

P_a == <<"a">>
P_e == <<"e">>
P_s == <<"s">>

Import(path) == WFacet(S_import, <<>>, <<WAttr(S_path, "STRING", StrV(path))>>, <<>>)
Plain(name) == WFacet(name, <<>>, <<>>, <<WKV(K_k, IntV(1), <<>>)>>)

T_a == <<"a">>
T_abs_a == <<"/", "w", "/", "a">>
T_abs_s == <<"/", "o", "/", "s">>
T_url == <<"h", ":", "/", "/", "a">>
T_URL == <<"H", ":", "/", "/", "a">>
T_up_s == <<".", ".", "/", "o", "/", "s">>
T_link_s == <<"l", "/", "s">>
T_d_up_a == <<"d", "/", ".", ".", "/", "a">>
T_d_e == <<"d", "/", "e">>
T_missing == <<"z">>
T_dir == <<"d">>
T_link_back == <<"l", "/", ".", ".", "/", "w", "/", "a">>

SandboxTargets ==
    {T_a, T_abs_a, T_abs_s, T_url, T_URL, T_up_s, T_link_s, T_d_up_a, T_d_e, T_missing,
     T_dir, T_link_back}

SandboxFiles ==
    {[p \in {<<P_w, P_a>>, <<P_w, P_d, P_e>>, <<P_w, P_H, P_a>>, <<P_o, P_s>>} |->
         CASE p = <<P_w, P_a>> -> a
           [] p = <<P_w, P_d, P_e>> -> e
           [] p = <<P_w, P_H, P_a>> -> h
           [] OTHER -> <<Plain(<<"s">>)>>] :
     a \in {<<Plain(<<"x">>)>>, <<Import(T_link_s)>>, <<Import(T_d_e)>>, <<Import(T_URL)>>},
     e \in {<<Plain(<<"y">>)>>, <<Import(T_up_s)>>, <<Import(T_abs_s)>>},
     h \in {<<Plain(<<"h">>)>>, <<Import(T_link_s)>>}}

InitSandbox ==
    /\ InitCanon
    /\ pc = "parse"
    /\ NoSource
    /\ host_vars = EmptyDict
    /\ resolve_mode = "host"
    /\ strict_merge = FALSE
    /\ import_roots \in {<<(<<".">>)>>, <<(<<"d">>)>>}
    /\ files \in SandboxFiles
    /\ \E n \in 1..MaxImports : \E ts \in [1..n -> SandboxTargets] :
          doc = [i \in 1..n |-> Import(ts[i])]

NextSandbox == Parse \/ ExpandImport \/ ExpandCopy \/ ExpandReturn \/ ExpandDone

SpecSandbox == InitSandbox /\ [][NextSandbox]_vars

-----------------------------------------------------------------------------
(* Import graphs.  The files /w/a, /w/b and /w/c import one another, by     *)
(* name or as d/../a, in chains, diamonds and cycles; the document holds up *)
(* to MaxImports directives.  The steps of expand_imports are those of one  *)
(* sequential call, which the interpreter keeps running: weak fairness.     *)

P_b == <<"b">>
P_c == <<"c">>
T_b == <<"b">>
T_c == <<"c">>

GraphTexts ==
    {<<Plain(<<"x">>)>>, <<Import(T_a)>>, <<Import(T_b)>>, <<Import(T_c)>>,
     <<Import(T_d_up_a)>>, <<Import(T_c), Import(T_c)>>,
     <<Plain(<<"x">>), Import(T_missing), Import(T_b)>>}

GraphFiles ==
    {[p \in {<<P_w, P_a>>, <<P_w, P_b>>, <<P_w, P_c>>} |->
         CASE p = <<P_w, P_a>> -> a [] p = <<P_w, P_b>> -> b [] OTHER -> c] :
     a \in GraphTexts, b \in GraphTexts, c \in GraphTexts}

InitImports ==
    /\ InitCanon
    /\ pc = "parse"
    /\ NoSource
    /\ host_vars = EmptyDict
    /\ resolve_mode = "host"
    /\ strict_merge = FALSE
    /\ import_roots = <<(<<".">>)>>
    /\ files \in GraphFiles
    /\ \E n \in 1..MaxImports : \E ts \in [1..n -> {T_a, T_b, T_missing}] :
          doc = [i \in 1..n |-> Import(ts[i])]

NextImports == Parse \/ ExpandImport \/ ExpandCopy \/ ExpandReturn \/ ExpandDone

SpecImports == InitImports /\ [][NextImports]_vars
SpecImportsFair == SpecImports /\ WF_vars(NextImports)

-----------------------------------------------------------------------------
(* Imports that merge.  The file /w/a holds one or two facets; the document *)
(* imports it, by default, with strategy merge or with strategy replace,    *)
(* before or after up to MaxHosts facets of its own.  Names, attributes and *)
(* body shapes (key/value, list, empty, a repeated key) agree and differ.   *)
(* After the compilation the document is compiled again with the text of    *)
(* the file in the place of the @import.                                    *)

MaxHosts == 1

ImportWith(path, strategy) ==
    WFacet(S_import, <<>>,
           <<WAttr(S_path, "STRING", StrV(path)), WAttr(S_strategy, "STRING", StrV(strategy))>>,
           <<>>)

MergeAttrPool ==
    {<<>>, <<WAttr(<<"r">>, "STRING", StrV(<<"u">>))>>,
     <<WAttr(<<"r">>, "STRING", StrV(<<"v">>)), WAttr(<<"q">>, "STRING", StrV(<<"v">>))>>}
HostBodies ==
    {<<WKV(K_k, IntV(1), <<>>), WKV(K_j, IntV(1), <<>>)>>,
     <<WItem(IntV(1), Null, <<>>)>>,
     <<>>}
FileBodies ==
    {<<WKV(K_j, IntV(2), <<>>), WKV(<<"i">>, IntV(2), <<>>), WKV(K_j, IntV(3), <<>>)>>,
     <<WItem(IntV(2), Null, <<>>), WItem(IntV(1), Null, <<>>)>>}
HostFacets ==
    {WFacet(<<"a">>, <<>>, at, es) : at \in MergeAttrPool, es \in HostBodies}
    \cup {WFacet(<<"b">>, <<>>, <<>>, <<WKV(K_k, IntV(1), <<>>)>>)}
FileFacets ==
    {WFacet(<<"a">>, <<>>, at, es) : at \in MergeAttrPool, es \in FileBodies}
FileTexts ==
    {<<f>> : f \in FileFacets}
    \cup {<<f, WFacet(<<"b">>, <<>>, <<>>, <<WKV(K_j, IntV(2), <<>>)>>)>> : f \in FileFacets}
MergeImports == {Import(T_a), ImportWith(T_a, S_merge), ImportWith(T_a, S_replace)}

InitMerge ==
    /\ InitCanon
    /\ pc = "parse"
    /\ NoSource
    /\ host_vars = EmptyDict
    /\ resolve_mode = "host"
    /\ strict_merge \in BOOLEAN
    /\ import_roots = <<(<<".">>)>>
    /\ \E text \in FileTexts : files = [p \in {<<P_w, P_a>>} |-> text]
    /\ \E n \in 0..MaxHosts : \E m \in 0..MaxHosts : \E imp \in MergeImports :
       \E before \in [1..n -> HostFacets] : \E after \in [1..m -> HostFacets] :
          /\ n + m <= MaxHosts
          /\ doc = before \o <<imp>> \o after

(* the written document with the text of each imported file in the place of *)
(* its @import                                                              *)
RECURSIVE Inlined(_)
Inlined(text) ==
    IF text = <<>> THEN <<>>
    ELSE IF Head(text).name = S_import
    THEN files[resolve(UnderCwd(Path(Head(text).attrs[1].v.s)))] \o Inlined(Tail(text))
    ELSE <<Head(text)>> \o Inlined(Tail(text))

(* the second call of canonize, on the inlined document *)
Recompile ==
    /\ run = 1
    /\ pc \in {"done", "failed"}
    /\ first' = [pc |-> pc, err |-> err, result |-> result, doc |-> doc]
    /\ run' = 2
    /\ doc' = Inlined(doc)
    /\ pc' = "parse"
    /\ err' = "" /\ msg' = ""
    /\ facets' = <<>> /\ frames' = <<>> /\ count' = 0 /\ reads' = <<>>
    /\ fi' = 0 /\ vi' = 0 /\ compile_vars' = EmptyDict /\ var_types_specs' = EmptyDict
    /\ normal_facets' = <<>> /\ env' = EmptyDict /\ evalOps' = 0
    /\ out' = EmptyDict /\ anchors' = EmptyDict /\ result' = Null
    /\ UNCHANGED <<host_vars, resolve_mode, import_roots, strict_merge, files, lexVars, walk, lensVars>>

NextMerge ==
    \/ Parse \/ ExpandImport \/ ExpandCopy \/ ExpandReturn \/ ExpandDone \/ Separate
    \/ Validate \/ ResolveEnv \/ Evaluate \/ ResolveCollect \/ ResolveSubstitute \/ Recompile

SpecMerge == InitMerge /\ [][NextMerge]_vars

-----------------------------------------------------------------------------
(* Documents with an @vars facet of up to MaxVars entries whose right-hand  *)
(* sides are literals and references, in each of the three forms, to names  *)
(* of one and of two characters and to a dotted path; a facet @f follows.   *)

MaxVars == 2

N_a == <<"a">>
N_ab == <<"a", "b">>
N_ab_j == <<"a", "b", ".", "j">>
S_f == <<"f">>

DollarRef(path) == StrV(<<"$">> \o path)
BracedRef(path) == StrV(<<"$", "{">> \o path \o <<"}">>)
TemplateRef(path) == StrV(<<"{", "{">> \o path \o <<"}", "}">>)

RefPaths == {N_a, N_ab, N_ab_j}
VarValues ==
    {IntV(1), StrV(<<"s">>), Dict(<<E(K_j, IntV(2))>>)}
    \cup {DollarRef(p) : p \in RefPaths}
    \cup {BracedRef(p) : p \in RefPaths}
    \cup {TemplateRef(p) : p \in RefPaths}
    \cup {List(<<DollarRef(N_a)>>)}

VarEntries == {WKV(k, w, <<>>) : k \in {N_a, N_ab}, w \in VarValues}

UsesVars == WFacet(S_f, <<>>, <<>>, <<WKV(K_k, DollarRef(N_ab), <<>>)>>)

InitVars ==
    /\ InitCanon
    /\ pc = "parse"
    /\ NoSource
    /\ NoFiles
    /\ host_vars = EmptyDict
    /\ resolve_mode \in {"host", "all"}
    /\ \E n \in 1..MaxVars : \E es \in [1..n -> VarEntries] :
          doc = <<WFacet(S_vars, <<>>, <<>>, es), UsesVars>>

NextVars ==
    \/ Parse \/ ExpandCopy \/ ExpandDone \/ Separate \/ ResolveVar \/ Validate
    \/ ResolveEnv \/ Evaluate \/ ResolveCollect \/ ResolveSubstitute

SpecVars == InitVars /\ [][NextVars]_vars

-----------------------------------------------------------------------------
(* Documents with one @vars, one @var_types and one other facet in each of  *)
(* the six orders: the declared types accept or reject the variables        *)
(* (F451 unknown type, missing path, mismatch; F452 min, max, enum), and    *)
(* the other facet substitutes, interpolates, filters by "if" or applies a  *)
(* lens.                                                                    *)

TypeSpec(es) == WKV(N_a, Dict(es), <<>>)

TypingVars ==
    {WFacet(S_vars, <<>>, <<>>, <<WKV(N_a, w, <<>>)>>) : w \in {IntV(1), IntV(3), StrV(<<"s">>)}}

TypingTypes ==
    {WFacet(S_var_types, <<>>, <<>>, <<e>>) :
        e \in {TypeSpec(<<E(S_type, StrV(S_int))>>),
               TypeSpec(<<E(S_type, StrV(S_string))>>),
               TypeSpec(<<E(S_type, StrV(<<"n", "o">>))>>),
               TypeSpec(<<E(S_type, StrV(S_int)), E(S_min, IntV(2))>>),
               TypeSpec(<<E(S_type, StrV(S_int)), E(S_max, IntV(2))>>),
               TypeSpec(<<E(S_type, StrV(S_int)), E(S_enum, List(<<IntV(3)>>))>>),
               WKV(N_ab, Dict(<<E(S_type, StrV(S_int))>>), <<>>)}}

TypingOthers ==
    {WFacet(S_f, <<>>, <<>>, <<WKV(K_k, DollarRef(N_a), <<>>)>>),
     WFacet(S_f, <<>>, <<>>, <<WKV(K_k, TemplateRef(N_a), <<>>)>>),
     WFacet(S_f, <<>>, <<>>, <<WItem(IntV(1), StrV(N_a), <<>>)>>),
     WFacet(S_f, <<>>, <<WAttr(S_if, "STRING", StrV(N_a))>>, <<WKV(K_k, IntV(1), <<>>)>>),
     WFacet(S_f, <<>>, <<>>, <<WKV(K_k, StrV(<<"s">>), <<LensCall(S_trim, <<>>, EmptyDict)>>)>>)}

Orders == {p \in [1..3 -> 1..3] : \A i, j \in 1..3 : p[i] = p[j] => i = j}

InitTyping ==
    /\ InitCanon
    /\ pc = "parse"
    /\ NoSource
    /\ NoFiles
    /\ host_vars = Dict(<<E(N_a, IntV(1))>>)
    /\ resolve_mode \in {"host", "all"}
    /\ \E v \in TypingVars : \E t \in TypingTypes : \E f \in TypingOthers : \E p \in Orders :
          doc = [i \in 1..3 |-> <<v, t, f>>[p[i]]]

NextTyping ==
    \/ Parse \/ ExpandCopy \/ ExpandDone \/ Separate \/ ResolveVar \/ Validate
    \/ ResolveEnv \/ Evaluate \/ ResolveCollect \/ ResolveSubstitute

SpecTyping == InitTyping /\ [][NextTyping]_vars

-----------------------------------------------------------------------------
(* Values on their way to the output.  An @vars facet defines v, b and a    *)
(* fenced w; the host defines h and b; u is defined nowhere.  The facet @f  *)
(* holds either one written value (a string, a number, a reference in each *)
(* of the three forms, or a fence holding references) with none, one or two *)
(* lenses, placed as a key's value, as a "-" item or inside nested blocks,  *)
(* or a list of up to MaxItems "-" items with and without "if", placed as   *)
(* the facet's body, under a key or inside a nested block.                  *)

MaxItems == 2

N_h == <<"h">>
N_v == <<"v">>
N_b == <<"b">>
N_u == <<"u">>
N_w == <<"w">>

PipeHost == Dict(<<E(N_h, StrV(<<"x">>)), E(N_b, StrV(<<"y">>))>>)

Trim == LensCall(S_trim, <<>>, EmptyDict)
Upper_ == LensCall(S_upper, <<>>, EmptyDict)
PipeLenses == {<<>>, <<Trim>>, <<Trim, Upper_>>}

FenceTexts == {<<"{", "{", "h", "}", "}">>, <<" ", "$", "u", " ">>, <<"$", "{", "b", "}">>}

PipeVarsFacets ==
    {WFacet(S_vars, <<>>, <<>>,
            <<WKV(N_v, StrV(<<"c">>), <<>>), WKV(N_b, StrV(<<"d">>), <<>>),
              WKV(N_w, Fence(text), <<Trim>>)>>) : text \in FenceTexts}

PipeNames == {N_h, N_v, N_b, N_u, N_w}
PipeRefs ==
    {DollarRef(n) : n \in PipeNames} \cup {BracedRef(n) : n \in PipeNames}
    \cup {TemplateRef(n) : n \in PipeNames}
PipeValues ==
    {StrV(<<" ", "s", " ">>), IntV(1)} \cup PipeRefs \cup {Fence(text) : text \in FenceTexts}

(* one written value with its lenses, in each place *)
Placed_kv(w, ls) == <<WKV(K_k, w, ls)>>
Placed_item(w, ls) == <<WItem(w, Null, ls)>>
Placed_key_item(w, ls) == <<WBlock(K_k, <<WItem(w, Null, ls)>>)>>
Placed_nested_kv(w, ls) == <<WBlock(K_k, <<WKV(K_j, w, ls)>>)>>
Placed_nested_item(w, ls) == <<WBlock(K_k, <<WBlock(K_j, <<WItem(w, Null, ls)>>)>>)>>
Placed_nested2_kv(w, ls) == <<WBlock(K_k, <<WBlock(K_j, <<WKV(K_k, w, ls)>>)>>)>>

PipeSingles ==
    UNION {{Placed_kv(w, ls), Placed_item(w, ls), Placed_key_item(w, ls),
            Placed_nested_kv(w, ls), Placed_nested_item(w, ls), Placed_nested2_kv(w, ls)} :
              w \in PipeValues, ls \in PipeLenses}
    \cup {<<WFenceKV(K_k, Fence(text), ls)>> : text \in FenceTexts, ls \in PipeLenses}

(* "-" items: kept and gated out, with values and lenses that evaluate and  *)
(* that raise (an undefined $u, upper of a number)                          *)
PipeItems ==
    {WItem(StrV(<<"s">>), Null, <<>>),
     WItem(StrV(<<"t">>), StrV(S_true), <<Upper_>>),
     WItem(DollarRef(N_u), StrV(S_false), <<>>),
     WItem(IntV(1), StrV(S_false), <<Upper_>>),
     WItem(StrV(<<"r">>), StrV(N_h), <<>>),
     WItem(DollarRef(N_u), Null, <<>>)}
    \cup {WItem(IntV(1), StrV(n), <<>>) : n \in {N_v, N_b, N_u}}

PipeLists == UNION {[1..n -> PipeItems] : n \in 1..MaxItems}
PipeListed ==
    UNION {{items, <<WBlock(K_k, items)>>, <<WBlock(K_k, <<WBlock(K_j, items)>>)>>} :
              items \in PipeLists}

PipeFacets ==
    {WFacet(S_f, <<>>, <<>>, es) : es \in PipeSingles \cup PipeListed}
    \cup {WFacet(S_f, <<>>, <<WAttr(S_if, "STRING", StrV(n))>>, Placed_kv(IntV(1), <<>>)) :
             n \in {N_h, N_v, N_b, N_u}}

InitPipeline ==
    /\ InitCanon
    /\ pc = "parse"
    /\ NoSource
    /\ NoFiles
    /\ host_vars = PipeHost
    /\ resolve_mode \in {"host", "all"}
    /\ \E vf \in PipeVarsFacets : \E f \in PipeFacets : doc = <<vf, f>>

NextPipeline ==
    \/ Parse \/ ExpandCopy \/ ExpandDone \/ Separate \/ ResolveVar \/ Validate
    \/ ResolveEnv \/ Evaluate \/ ResolveCollect \/ ResolveSubstitute

SpecPipeline == InitPipeline /\ [][NextPipeline]_vars

-----------------------------------------------------------------------------
(* Variables with a pipeline.  @vars defines xs, a list, and pick, written  *)
(* as a reference to xs or as a list of its own with none or one seeded     *)
(* lens; the facet @f refers to pick or sends xs through a seeded lens.     *)

N_xs == <<"x", "s">>
N_pick == <<"p", "i", "c", "k">>
C_a == StrV(<<"a">>)
C_b == StrV(<<"b">>)
C_c == StrV(<<"c">>)

SeededCall(name, seed) == LensCall(name, <<>>, Dict(<<E(S_seed, seed)>>))
SeedValues == {IntV(42), StrV(<<"s">>)}
SeededLenses ==
    {<<SeededCall(name, seed)>> : name \in {S_choose, S_shuffle}, seed \in SeedValues}
    \cup {<<>>, <<LensCall(S_choose, <<>>, EmptyDict)>>}

SeededLists == {List(<<C_a, C_b, C_c>>), List(<<C_b, C_a>>), List(<<C_a>>), List(<<>>)}
PickValues == {DollarRef(N_xs), BracedRef(N_xs), List(<<C_c, C_b, C_a>>)}

SeededVars ==
    {WFacet(S_vars, <<>>, <<>>, <<WKV(N_xs, xs, <<>>), WKV(N_pick, w, ls)>>) :
        xs \in SeededLists, w \in PickValues, ls \in SeededLenses}
SeededUses ==
    {WFacet(S_f, <<>>, <<>>, <<WKV(K_k, DollarRef(N_pick), <<>>)>>)}
    \cup {WFacet(S_f, <<>>, <<>>, <<WKV(K_k, DollarRef(N_xs), <<SeededCall(S_choose, IntV(42))>>)>>)}

InitSeeded ==
    /\ InitCanon
    /\ pc = "parse"
    /\ NoSource
    /\ NoFiles
    /\ host_vars = EmptyDict
    /\ resolve_mode \in {"host", "all"}
    /\ \E vf \in SeededVars : \E f \in SeededUses : doc = <<vf, f>>

NextSeeded ==
    \/ Parse \/ ExpandCopy \/ ExpandDone \/ Separate \/ ResolveVar \/ Validate
    \/ ResolveEnv \/ Evaluate \/ ResolveCollect \/ ResolveSubstitute

SpecSeeded == InitSeeded /\ [][NextSeeded]_vars

-----------------------------------------------------------------------------
(* Lens calls.  A caller holds a value x and applies one lens call to it    *)
(* MaxCalls times.  x is a string, a number, a boolean, None, a map or a    *)
(* list (of up to MaxList elements a and b, or a, b and c in some order);   *)
(* a list is an object on the heap, so that a call could alter it.  The     *)
(* calls are those of the built-in lenses with fitting and with unfitting   *)
(* arguments, and of a lens that does not exist.                            *)

MaxList == 2
MaxCalls == 2

S_normalize_newlines ==
    <<"n", "o", "r", "m", "a", "l", "i", "z", "e", "_", "n", "e", "w", "l", "i", "n", "e", "s">>

LensLists ==
    {List(xs) : xs \in UNION {[1..n -> {C_a, C_b}] : n \in 0..MaxList}}
    \cup {List(<<x, y, z>>) : x \in {C_a}, y \in {C_b}, z \in {C_c}}
    \cup {List(xs) : xs \in {p \in [1..3 -> {C_a, C_b, C_c}] : \A i, j \in 1..3 : p[i] = p[j] => i = j}}
LensStrings ==
    {StrV(<<" ", "s", " ">>), StrV(<<"a", " ", "\t", " ", "s">>), StrV(<<"A", "s">>),
     StrV(<<" ", " ", "a", "\n", " ", "\n", " ", " ", " ", "s">>), StrV(<<>>)}
LensOthers == {IntV(1), BoolV(TRUE), Null, Dict(<<E(K_k, IntV(1))>>)}
LensValues == LensLists \cup LensStrings \cup LensOthers

Positional(name, args) == LensCall(name, args, EmptyDict)
Named(name, es) == LensCall(name, <<>>, Dict(es))
T_s == StrV(<<"s">>)
T_t == StrV(<<"t">>)
LensCalls ==
    {Positional(name, <<>>) :
        name \in BUILTINS \cup {S_normalize_newlines}}
    \cup {Positional(name, <<IntV(1)>>) : name \in {S_trim, S_upper, S_choose, S_replace}}
    \cup {Positional(S_limit, <<n>>) : n \in {IntV(0), IntV(2), IntV(-1), BoolV(TRUE), T_s}}
    \cup {Named(S_limit, <<E(S_n, IntV(2))>>), Named(S_trim, <<E(N_x, IntV(2))>>)}
    \cup {Positional(name, <<old, new>>) :
             name \in {S_replace, S_regex_replace},
             old \in {T_s, StrV(<<>>), StrV(<<"(">>), IntV(1)},
             new \in {T_t, StrV(<<Backslash, "1">>)}}
    \cup {Named(S_replace, <<E(S_new, T_t), E(S_old, T_s)>>)}
    \cup {Named(name, <<E(S_seed, seed)>>) :
             name \in {S_choose, S_shuffle}, seed \in SeedValues \cup {Null}}
    \cup {Named(S_shuffle, <<E(S_seed, IntV(42)), E(N_x, IntV(1))>>)}

InitLenses ==
    /\ pc = "lens"
    /\ err = "" /\ msg = ""
    /\ doc = <<>> /\ host_vars = EmptyDict /\ resolve_mode = "host"
    /\ NoFiles /\ run = 1 /\ first = Null
    /\ NoSource
    /\ facets = <<>> /\ frames = <<>> /\ count = 0 /\ reads = <<>>
    /\ fi = 0 /\ vi = 0 /\ compile_vars = EmptyDict /\ var_types_specs = EmptyDict
    /\ normal_facets = <<>> /\ env = EmptyDict /\ evalOps = 0
    /\ out = EmptyDict /\ anchors = EmptyDict /\ walk = <<>> /\ result = Null
    /\ \E x \in LensValues : \E call \in LensCalls :
          /\ given = [x |-> x, call |-> call]
          /\ heap = IF x.t = "list" THEN <<x.xs>> ELSE <<>>
    /\ returned = <<>>

(* the value the caller holds: its list object as it is now *)
Held == IF given.x.t = "list" THEN List(heap[1]) ELSE given.x

(* apply_pipeline(x, [call]) *)
CallLens ==
    /\ pc = "lens"
    /\ Len(returned) < MaxCalls
    /\ \E r \in {apply_pipeline(Held, <<given.call>>)} :
          /\ returned' = Append(returned, r)
          /\ heap' = IF given.call.name = S_shuffle /\ r.err = ""
                     THEN ShuffleIn(heap, 1, SeedOf(given.call)).heap
                     ELSE heap
    /\ pc' = IF Len(returned) + 1 = MaxCalls THEN "done" ELSE pc
    /\ UNCHANGED <<err, msg, inputVars, lexVars, walk, given, importVars, canonVars, out, anchors,
                   result>>

NextLenses == CallLens

SpecLenses == InitLenses /\ [][NextLenses]_vars

-----------------------------------------------------------------------------
(* Facet headers.  The facet @f is written with or without an anchor, with  *)
(* up to MaxAttrs attributes and with or without an "if" before or after    *)
(* them; the values are tokens of every kind an attribute can hold and one  *)
(* it cannot.  An @vars facet or an @import may stand before @f, and a      *)
(* facet referring to the anchor after it.  The host defines h.             *)

MaxAttrs == 1

A_r == <<"r">>
A_q == <<"q">>
N_n == <<"n">>
S_g == <<"g">>

IfTokens ==
    {<<"STRING", S_true>>, <<"STRING", S_false>>, <<"STRING", N_h>>, <<"STRING", N_u>>,
     <<"STRING", <<>>>>, <<"BOOLEAN", S_true>>, <<"BOOLEAN", S_false>>, <<"NUMBER", <<"1">>>>,
     <<"NULL", S_null>>, <<"IDENT", N_h>>, <<"IDENT", N_u>>}
IfAttrs == {<<>>} \cup {<<WAttr(S_if, t[1], StrV(t[2]))>> : t \in IfTokens}

OtherTokens ==
    {<<"STRING", <<"u">>>>, <<"IDENT", <<"u">>>>, <<"NUMBER", <<"2">>>>,
     <<"STRING", <<"{", "{", "h", "}", "}">>>>, <<"STRING", <<"a", "{", "{">>>>,
     <<"STRING", <<"$", "h">>>>, <<"STRING", <<"$", "{", "h", "}">>>>,
     <<"STRING", <<"a", "$", "h">>>>, <<"LBRACE", <<"{">>>>}
OtherAttrs ==
    {WAttr(A_r, t[1], StrV(t[2])) : t \in OtherTokens}
    \cup {WAttr(A_q, "BOOLEAN", StrV(S_true)), WAttr(S_value, "NUMBER", StrV(<<"1">>))}

AttrLists ==
    UNION {{i \o as, as \o i} : i \in IfAttrs,
                                as \in UNION {[1..n -> OtherAttrs] : n \in 0..MaxAttrs}}

HeaderBodies ==
    {<<WKV(K_k, DollarRef(N_h), <<Upper_>>)>>, <<WItem(StrV(<<"s">>), Null, <<>>)>>}
HeaderFacets ==
    {WFacet(S_f, a, at, es) : a \in {<<>>, N_n}, at \in AttrLists, es \in HeaderBodies}
Before ==
    {<<>>, <<WFacet(S_vars, <<>>, <<>>, <<WKV(N_v, StrV(<<"c">>), <<>>)>>)>>, <<Import(T_a)>>}
After == {<<>>, <<WFacet(S_g, <<>>, <<>>, <<WKV(K_j, WStar(N_n), <<>>)>>)>>}

InitAttrs ==
    /\ InitCanon
    /\ pc = "parse"
    /\ NoSource
    /\ host_vars = Dict(<<E(N_h, StrV(<<"x">>))>>)
    /\ resolve_mode = "host"
    /\ strict_merge = FALSE
    /\ import_roots = <<(<<".">>)>>
    /\ files = [p \in {<<P_w, P_a>>} |-> <<Plain(<<"b">>)>>]
    /\ \E b \in Before : \E f \in HeaderFacets : \E a \in After : doc = b \o <<f>> \o a

NextAttrs ==
    \/ Parse \/ ExpandImport \/ ExpandCopy \/ ExpandReturn \/ ExpandDone \/ Separate
    \/ ResolveVar \/ Validate \/ ResolveEnv \/ Evaluate \/ ResolveCollect \/ ResolveSubstitute

SpecAttrs == InitAttrs /\ [][NextAttrs]_vars

-----------------------------------------------------------------------------
(* Failures.  @vars defines a as 1; @var_types gives a a spec that is a map *)
(* or a number; the facet @f has no "if" or one that ends after an          *)
(* operator, tests membership in a string with a number or a string on the  *)
(* left, or names a variable, and its key k sends a string through one lens *)
(* call whose arguments fit the lens or do not.                             *)

FailTypes ==
    {WFacet(S_var_types, <<>>, <<>>, <<e>>) :
        e \in {TypeSpec(<<E(S_type, StrV(S_int))>>), WKV(N_a, IntV(1), <<>>)}}

FailIfs ==
    {<<"a">>,
     <<"a", " ", "=", "=">>,
     <<"n", "o", "t">>,
     <<"1", " ", "i", "n", " ", SQuote, "s", SQuote>>,
     <<SQuote, "s", SQuote, " ", "i", "n", " ", SQuote, "s", SQuote>>}

FailLenses ==
    {<<>>, <<Positional(S_trim, <<>>)>>, <<Positional(S_trim, <<IntV(1)>>)>>,
     <<Positional(S_limit, <<>>)>>, <<Positional(S_limit, <<IntV(1)>>)>>,
     <<Named(S_limit, <<E(S_n, IntV(1))>>)>>, <<Named(S_limit, <<E(N_x, IntV(1))>>)>>,
     <<Named(S_upper, <<E(S_n, IntV(1))>>)>>}

FailFacets ==
    {WFacet(S_f, <<>>, attrs, <<WKV(K_k, StrV(<<"s", "t">>), ls)>>) :
        attrs \in {<<>>} \cup {<<WAttr(S_if, "STRING", StrV(x))>> : x \in FailIfs},
        ls \in FailLenses}

InitFailures ==
    /\ InitCanon
    /\ pc = "parse"
    /\ NoSource
    /\ NoFiles
    /\ host_vars = EmptyDict
    /\ resolve_mode \in {"host", "all"}
    /\ \E t \in FailTypes : \E f \in FailFacets :
          doc = <<WFacet(S_vars, <<>>, <<>>, <<WKV(N_a, IntV(1), <<>>)>>), t, f>>

NextFailures ==
    \/ Parse \/ ExpandCopy \/ ExpandDone \/ Separate \/ ResolveVar \/ Validate
    \/ ResolveEnv \/ Evaluate \/ ResolveCollect \/ ResolveSubstitute

SpecFailures == InitFailures /\ [][NextFailures]_vars

-----------------------------------------------------------------------------
(* Positions of a tree.  A path is a sequence of steps [k |-> key] and      *)
(* [i |-> index].  NodesOf gives every node the substitute pass visits with *)
(* its path in the input (ip) and the path of its image in the output (op): *)
(* an anchored node is replaced by its value, so the "value" step of the    *)
(* input has no counterpart in the output.                                  *)

KeyStep(k) == [k |-> k]
IdxStep(i) == [i |-> i]

RECURSIVE NodesOf(_, _, _)
NodesOf(value, ip, op) ==
    {[ip |-> ip, op |-> op, node |-> value]} \cup
    IF value.t = "dict" THEN
        IF IsAlias(value) THEN {}
        ELSE IF IsAnchored(value)
        THEN NodesOf(Get(value, S_value), Append(ip, KeyStep(S_value)), op)
        ELSE UNION {NodesOf(value.es[i].v, Append(ip, KeyStep(value.es[i].k)),
                            Append(op, KeyStep(value.es[i].k))) : i \in 1..Len(value.es)}
    ELSE IF value.t = "list" THEN
        UNION {NodesOf(value.xs[i], Append(ip, IdxStep(i)), Append(op, IdxStep(i))) :
                   i \in 1..Len(value.xs)}
    ELSE {}

RECURSIVE At(_, _)
At(value, path) ==
    IF path = <<>> THEN value
    ELSE IF "k" \in DOMAIN Head(path)
         THEN At(Get(value, Head(path).k), Tail(path))
         ELSE At(value.xs[Head(path).i], Tail(path))

AliasNodes(value) == {a \in NodesOf(value, <<>>, <<>>) : IsAlias(a.node)}
AnchorDefs(value, name) ==
    {d \in NodesOf(value, <<>>, <<>>) : IsAnchored(d.node) /\ Get(d.node, ANCHOR_KEY).s = name}

(* The reference graph of the collected anchors: n -> m when the value of n *)
(* holds an alias *m.                                                       *)
RefersTo(n, m) ==
    /\ Has(anchors, n)
    /\ \E a \in AliasNodes(Get(anchors, n)) : Get(a.node, ALIAS_KEY).s = m

RECURSIVE ReachableFrom(_, _)
ReachableFrom(S, k) ==
    IF k = 0 THEN S
    ELSE ReachableFrom(S \cup {m \in AnchorNames : \E n \in S : RefersTo(n, m)}, k - 1)

OnCycle(n) ==
    n \in ReachableFrom({m \in AnchorNames : RefersTo(n, m)}, Cardinality(AnchorNames))

(* C10: after resolve_anchors, each position that held an alias *name holds *)
(* the value the output holds at the position of the &name definition, and  *)
(* a cycle error is raised only when the anchors do refer to each other in  *)
(* a cycle, however often an alias is used.                                 *)
C10_AliasEqualsDefinition ==
    /\ pc = "done" =>
          \A a \in AliasNodes(out) :
              LET defs == AnchorDefs(out, Get(a.node, ALIAS_KEY).s)
              IN  Cardinality(defs) = 1 =>
                     \A d \in defs : At(result, a.op) = At(result, d.op)
    /\ (pc = "failed" /\ msg = "Anchor cycle detected") =>
          \E n \in AnchorNames : OnCycle(n)

(* an anchor whose value is not a scalar, used twice through its alias *)
C10_Witness ==
    /\ pc = "done"
    /\ \E a, b \in AliasNodes(out) :
          /\ a.ip # b.ip
          /\ Get(a.node, ALIAS_KEY) = Get(b.node, ALIAS_KEY)
          /\ Cardinality(AnchorDefs(out, Get(a.node, ALIAS_KEY).s)) = 1
          /\ At(result, a.op).t = "dict"

-----------------------------------------------------------------------------
(* The nodes of a returned tree: the tree and, through maps and sequences,  *)
(* every value it holds.                                                    *)
RECURSIVE TreeNodes(_)
TreeNodes(value) ==
    {value} \cup
    IF value.t = "dict" THEN UNION {TreeNodes(value.es[i].v) : i \in 1..Len(value.es)}
    ELSE IF value.t = "list" THEN UNION {TreeNodes(value.xs[i]) : i \in 1..Len(value.xs)}
    ELSE {}

(* C1: when canonize returns, no map of the returned tree has a key "&" or  *)
(* a key "*", whatever value anchors, aliases and facet-header anchors the  *)
(* document uses.                                                           *)
C1_NoMarkerKeys ==
    pc = "done" =>
        \A n \in TreeNodes(result) :
            n.t = "dict" => ~Has(n, ANCHOR_KEY) /\ ~Has(n, ALIAS_KEY)

CanonicalKinds == {"dict", "list", "str", "int", "bool", "null"}

(* C2: when canonize returns, every node of the returned tree is a map, a   *)
(* sequence, a string, a number, a boolean or null, and never a Fence, a    *)
(* ListItem or a KV, wherever fences and "-" items sit in the document.     *)
C2_CanonicalKinds ==
    pc = "done" => \A n \in TreeNodes(result) : n.t \in CanonicalKinds

-----------------------------------------------------------------------------
(* The paths a right-hand side references: "$name" and "${path}" when they  *)
(* are the whole string, "{{path}}" anywhere in a string, with names of any *)
(* length, in the value itself and in the values it holds.                  *)
RECURSIVE TemplatePaths(_, _)
TemplatePaths(text, i) ==
    IF i > Len(text) THEN {}
    ELSE IF RefMatch(text, i, 1).ok
    THEN {RefMatch(text, i, 1).ref} \cup TemplatePaths(text, RefMatch(text, i, 1).end)
    ELSE TemplatePaths(text, i + 1)

StringRefs(cs) ==
    IF StartsWith(cs, <<"$", "{">>) /\ EndsWith(cs, <<"}">>)
    THEN {Strip(SubSeq(cs, 3, Len(cs) - 1))}
    ELSE IF StartsWith(cs, <<"$">>) /\ Len(cs) > 1 THEN {Tail(cs)}
    ELSE TemplatePaths(cs, 1)

RECURSIVE RefsOf(_)
RefsOf(value) ==
    CASE value.t = "str" -> StringRefs(value.s)
      [] value.t = "list" -> UNION {RefsOf(value.xs[i]) : i \in 1..Len(value.xs)}
      [] value.t = "dict" -> UNION {RefsOf(value.es[i].v) : i \in 1..Len(value.es)}
      [] value.t = "ListItem" -> RefsOf(value.value)
      [] OTHER -> {}

VarsEntry == facets[fi].body[vi]

(* C4: while the entries of @vars are processed top-down, an entry whose    *)
(* right-hand side references, as $name, ${path} or {{path}}, a path that   *)
(* the earlier entries have not defined makes compilation fail with F404,   *)
(* whatever the length of the name; a reference to an earlier entry         *)
(* resolves to that entry's value.                                          *)
C4_ForwardRefsF404 ==
    [][(pc = "separate" /\ InVars /\ IsKV(VarsEntry)) =>
         /\ (\E p \in RefsOf(VarsEntry.value) : ~_path_exists(compile_vars, p))
               => (pc' = "failed" /\ err' = "F404")
         /\ \A p \in RefPaths :
               (_path_exists(compile_vars, p)
                  /\ VarsEntry.value \in {DollarRef(p), BracedRef(p)})
               => (pc' = "separate"
                   /\ Get(compile_vars', VarsEntry.key) = _get_path(compile_vars, p))
         /\ \A p \in RefPaths :
               (_path_exists(compile_vars, p) /\ IsStr(_get_path(compile_vars, p))
                  /\ VarsEntry.value = TemplateRef(p))
               => (pc' = "separate"
                   /\ Get(compile_vars', VarsEntry.key) = _get_path(compile_vars, p))
      ]_vars

-----------------------------------------------------------------------------
(* the verdict of @var_types on the @vars, once both are complete *)
Separated == pc \notin {"parse", "expand", "separate"}
Rejected ==
    /\ Separated
    /\ var_types_specs.es # <<>>
    /\ validate_var_types(compile_vars, var_types_specs) \in {"F451", "F452"}

(* C5: whenever validate_var_types rejects the @vars, compilation fails     *)
(* with its error and no eval_if, substitute_scalar, interpolate_string or  *)
(* apply_pipeline call has been made on an ordinary facet, wherever @vars,  *)
(* @var_types and the ordinary facets stand in the document.                *)
C5_TypeGating ==
    /\ evalOps > 0 => (Separated /\ ~Rejected)
    /\ Rejected =>
          /\ evalOps = 0
          /\ pc \in {"validate", "failed"}
          /\ pc = "failed" => err = validate_var_types(compile_vars, var_types_specs)

(* rejected with the ordinary facet, which would substitute, ahead of both  *)
(* @vars and @var_types                                                     *)
C5_Witness ==
    /\ pc = "failed"
    /\ Rejected
    /\ err = "F452"
    /\ facets[1].name = S_f
    /\ normal_facets # <<>>
    /\ EvalFacet(normal_facets[1], host_vars).ops > 0

-----------------------------------------------------------------------------
(* The import sandbox.                                                      *)

AtImport ==
    /\ pc = "expand"
    /\ Top.i <= Len(Top.facets)
    /\ Top.facets[Top.i].name = S_import
    /\ Has(Top.facets[Top.i].attrs, S_path)
    /\ IsStr(Get(Top.facets[Top.i].attrs, S_path))
ImportPath == Get(Top.facets[Top.i].attrs, S_path).s

(* a URL scheme: a letter, then letters, digits, "+", "-" or ".", then "://" *)
SchemeChars == Lower \cup Upper \cup Digit \cup {"+", "-", "."}
CarriesScheme(cs) ==
    \E n \in 1..Len(cs) :
        /\ cs[1] \in Lower \cup Upper
        /\ \A i \in 2..n : cs[i] \in SchemeChars
        /\ StartsWithAt(cs, <<":", "/", "/">>, n + 1)

UnderARoot(canonical) ==
    \E i \in 1..Len(import_roots) :
        IsPrefix(resolve(UnderCwd(Path(import_roots[i]))), canonical)

ReadsConfined == \A i \in 1..Len(reads) : UnderARoot(reads[i])
RefusedUnread == pc' = "failed" /\ err' = "F601" /\ reads' = reads

(* C6: expand_imports never reads a file whose canonical path lies outside  *)
(* every allowed root, and an @import whose path is absolute, carries a URL *)
(* scheme or canonicalizes outside the roots fails with F601 before the     *)
(* file is opened, at every depth of nested imports.                        *)
C6_ImportSandbox ==
    /\ []ReadsConfined
    /\ [][(AtImport /\ (\/ Path(ImportPath).abs
                        \/ CarriesScheme(ImportPath)
                        \/ ~UnderARoot(resolve(UnderCwd(Path(ImportPath))))))
          => RefusedUnread]_vars

(* The same with the schemes that line 93 of imports.py matches, lower-case *)
(* letters only: this much holds.                                           *)
C6_LowerCaseSchemes ==
    /\ []ReadsConfined
    /\ [][(AtImport /\ (\/ Path(ImportPath).abs
                        \/ IsUrl(ImportPath)
                        \/ ~UnderARoot(resolve(UnderCwd(Path(ImportPath))))))
          => RefusedUnread]_vars

(* a nested import of a path outside the roots has been refused *)
C6_Witness ==
    /\ pc = "failed" /\ err = "F601" /\ msg = "Import path not allowed"
    /\ Len(frames) > 1
    /\ reads # <<>>

-----------------------------------------------------------------------------
(* Import termination and limits.                                           *)

(* the file an @import of a written text names, <<>> when it names none *)
Target(wf) ==
    IF wf.name = S_import /\ wf.attrs # <<>> /\ wf.attrs[1].k = S_path /\ IsStr(wf.attrs[1].v)
    THEN resolve(UnderCwd(Path(wf.attrs[1].v.s)))
    ELSE <<>>
Targets(text) == {Target(text[i]) : i \in 1..Len(text)} \cap DOMAIN files

RECURSIVE ImportClosure(_, _)
ImportClosure(S, k) ==
    IF k = 0 THEN S
    ELSE ImportClosure(S \cup UNION {Targets(files[f]) : f \in S}, k - 1)
(* the files the compilation of doc can come to import *)
Imported_files == ImportClosure(Targets(doc), Cardinality(DOMAIN files))
ImportsItself(f) == f \in ImportClosure(Targets(files[f]), Cardinality(DOMAIN files))

ExpansionOver == pc \in {"separate", "failed"}
(* the directive at hand imports a file that is being expanded *)
ClosesCycle ==
    /\ AtImport
    /\ \E i \in 1..Len(Stack) : resolve(Stack[i]) = resolve(UnderCwd(Path(ImportPath)))

(* C7: import expansion terminates on every import graph; a compilation    *)
(* that imports a file importing itself, directly or transitively, never    *)
(* completes the expansion, and the import that closes the cycle ends it    *)
(* with F602; the import stack never holds more than MAX_IMPORT_DEPTH       *)
(* files; never more than MAX_IMPORTS @import directives are processed      *)
(* (their files read), over all levels of recursion.                        *)
C7_ImportsTerminate ==
    /\ <>ExpansionOver
    /\ []((\E f \in Imported_files : ImportsItself(f)) => pc # "separate")
    /\ (ClosesCycle ~> (pc = "failed" /\ err = "F602"))
    /\ [](Len(Stack) <= MAX_IMPORT_DEPTH)
    /\ [](Len(reads) <= MAX_IMPORTS /\ (pc # "failed" => count <= MAX_IMPORTS))

(* the import that closes a cycle through two files has been refused, after *)
(* MAX_IMPORTS - 1 files were read                                          *)
C7_Witness ==
    /\ pc = "failed" /\ err = "F602" /\ msg = "Import cycle detected"
    /\ Len(Stack) = 2
    /\ Stack[1] # Stack[2]
    /\ Len(reads) = MAX_IMPORTS - 1

-----------------------------------------------------------------------------
(* Merging an imported facet into a facet of the same name.                 *)

KVBody(body) == All(body, IsKV)
ListBody(body) == All(body, IsListItem)
SameShape(a, f) == (KVBody(a.body) /\ KVBody(f.body)) \/ (ListBody(a.body) /\ ListBody(f.body))

(* a recursive call is about to return under strategy merge *)
Returning ==
    /\ pc = "expand" /\ Len(frames) > 1 /\ Top.i > Len(Top.facets)
    /\ Top.strategy # StrV(S_replace)
Dst == frames[Len(frames) - 1].result
Src == Top.result
Once(name) == Cardinality({q \in 1..Len(Src) : Src[q].name = name}) = 1

Keys(d) == {d.es[i].k : i \in 1..Len(d.es)}
AttrsUnion(new, a, f) ==
    /\ Keys(new) = Keys(a) \cup Keys(f)
    /\ \A k \in Keys(new) : Get(new, k) = IF Has(f, k) THEN Get(f, k) ELSE Get(a, k)

Firsts(all) == {i \in 1..Len(all) : \A j \in 1..(i - 1) : all[j].key # all[i].key}
NthFirst(all, p) == CHOOSE i \in Firsts(all) : Cardinality({j \in Firsts(all) : j < i}) = p - 1
LastOf(all, key) == CHOOSE i \in 1..Len(all) :
                        all[i].key = key /\ \A j \in (i + 1)..Len(all) : all[j].key # key
KVMerged(new, all) ==
    /\ Len(new) = Cardinality(Firsts(all))
    /\ \A p \in 1..Len(new) : new[p] = all[LastOf(all, all[NthFirst(all, p)].key)]

(* C9: when _merge_facets merges an imported facet into an existing facet   *)
(* of the same name under strategy merge, the attribute map is the union of *)
(* both with the imported value winning on a shared key, two list bodies    *)
(* become the existing items followed by the imported ones, and two         *)
(* key/value bodies become one entry per key, in the order of first         *)
(* appearance, each carrying the last value given for its key.              *)
(* the call fails only in strict mode, on two bodies of different shapes *)
MergeRefused ==
    /\ strict_merge
    /\ \E q \in 1..Len(Src) : \E i \in 1..Len(Dst) :
          Dst[i].name = Src[q].name /\ ~SameShape(Dst[i], Src[q])

C9_MergeSemantics ==
    [][Returning =>
        /\ pc' = "failed" => MergeRefused
        /\ pc' = "expand" =>
            \A q \in 1..Len(Src) :
                (Once(Src[q].name) /\ FacetIndex(Dst, Src[q].name) # 0
                 /\ SameShape(Dst[FacetIndex(Dst, Src[q].name)], Src[q]))
                => LET a == Dst[FacetIndex(Dst, Src[q].name)]
                       new == frames'[Len(frames')].result[FacetIndex(Dst, Src[q].name)]
                   IN  /\ new.name = a.name
                       /\ AttrsUnion(new.attrs, a.attrs, Src[q].attrs)
                       /\ (ListBody(a.body) /\ ListBody(Src[q].body))
                          => new.body = a.body \o Src[q].body
                       /\ (KVBody(a.body) /\ KVBody(Src[q].body))
                          => KVMerged(new.body, a.body \o Src[q].body)]_vars

(* @a(r="u") with k, j has taken in @a(r="v", q="v") with j, i, j *)
C9_Witness ==
    /\ pc = "expand" /\ run = 1 /\ reads # <<>> /\ Len(frames) = 1
    /\ \E i \in 1..Len(Top.result) :
          /\ Top.result[i].attrs = Dict(<<E(<<"r">>, StrV(<<"v">>)), E(<<"q">>, StrV(<<"v">>))>>)
          /\ Top.result[i].body =
                <<KV(K_k, IntV(1), <<>>), KV(K_j, IntV(3), <<>>), KV(<<"i">>, IntV(2), <<>>)>>

-----------------------------------------------------------------------------
(* An import against the same document with the file inlined.               *)

Merging(wf) == wf.name = S_import => Strategy(parse_facet(wf).v) # StrV(S_replace)
ImportedText(d) == files[<<P_w, P_a>>]
CompatibleShapes(d) ==
    \A i \in 1..Len(d) : \A j \in 1..Len(ImportedText(d)) :
        (d[i].name = ImportedText(d)[j].name)
        => SameShape(parse_facet(d[i]).v, parse_facet(ImportedText(d)[j]).v)

(* C8: for a document that imports a file with strategy merge and          *)
(* compatible body shapes, compiling it gives the same tree as compiling    *)
(* the document with the text of the file in the place of the @import,      *)
(* whether the import stands before or after host facets of the same name.  *)
C8_InlineEquals ==
    (/\ run = 2 /\ pc \in {"done", "failed"}
     /\ \A i \in 1..Len(first.doc) : Merging(first.doc[i])
     /\ CompatibleShapes(first.doc))
    => (pc = first.pc /\ err = first.err /\ result = first.result)

(* the same for imports that stand before every host facet of a name they   *)
(* bring: this much holds                                                   *)
ImportLeads(d) ==
    \A i \in 1..Len(d) : \A h \in 1..(i - 1) :
        d[i].name = S_import
        => \A j \in 1..Len(ImportedText(d)) : d[h].name # ImportedText(d)[j].name
C8_LeadingImports ==
    (/\ run = 2 /\ pc \in {"done", "failed"}
     /\ \A i \in 1..Len(first.doc) : Merging(first.doc[i])
     /\ CompatibleShapes(first.doc)
     /\ ImportLeads(first.doc))
    => (pc = first.pc /\ err = first.err /\ result = first.result)

-----------------------------------------------------------------------------
(* The lines of the source, as the documents of SpecLexer are written: a    *)
(* line that is three double quotes opens a string literal, or closes the   *)
(* open one; a line that is three grave accents opens a fenced block, or    *)
(* closes the open one.                                                     *)

LeadingSpaces(l) == SkipWhile(l, 1, {" "}) - 1
LineBody(l) == SubSeq(l, LeadingSpaces(l) + 1, Len(l))

RECURSIVE ModeAfter(_, _)
(* "code", "string" or "fence": what the text after line k of ls is part of *)
ModeAfter(ls, k) ==
    IF k = 0 THEN "code"
    ELSE IF ModeAfter(ls, k - 1) = "code"
    THEN (IF LineBody(ls[k]) = Triple THEN "string"
          ELSE IF LineBody(ls[k]) = Backticks THEN "fence" ELSE "code")
    ELSE IF ModeAfter(ls, k - 1) = "string"
    THEN (IF LineBody(ls[k]) = Triple THEN "code" ELSE "string")
    ELSE (IF LineBody(ls[k]) = Backticks THEN "code" ELSE "fence")

Fenced_line(ls, k) == ModeAfter(ls, k - 1) = "fence"
String_line(ls, k) == ModeAfter(ls, k - 1) = "string"
Blank_line(ls, k) == LineBody(ls[k]) = <<>>

(* the indentation level in force at line k: that of the nearest non-empty  *)
(* line before it that is outside the literals named by inside, 0 at the   *)
(* start of the document                                                   *)
LevelBefore(ls, k, inside) ==
    LET before == {j \in 1..(k - 1) : ~Blank_line(ls, j) /\ ModeAfter(ls, j - 1) \notin inside}
    IN  IF before = {} THEN 0
        ELSE LeadingSpaces(ls[CHOOSE j \in before : \A h \in before : h <= j]) \div 2

Misindented(ls, k, inside) ==
    /\ ~Blank_line(ls, k)
    /\ ModeAfter(ls, k - 1) \notin inside
    /\ \/ LeadingSpaces(ls[k]) % 2 # 0
       \/ LeadingSpaces(ls[k]) \div 2 > LevelBefore(ls, k, inside) + 1

SourceText == Split(source, "\n")
Lexed == pc \in {"lexed", "failed"}

(* C3: any document that has a non-empty line outside fenced content whose  *)
(* leading-space count is not a multiple of two, or whose indentation level *)
(* is more than one above the current level, is rejected with the lexical   *)
(* error F002, and no token stream is produced.                            *)
C3_IndentationRejected ==
    (Lexed /\ \E k \in 1..Len(SourceText) : Misindented(SourceText, k, {"fence"}))
    => (pc = "failed" /\ err = "F002" /\ tokens = <<>>)

(* The same with the lines of string literals set aside as well, and any    *)
(* lexical error taken for the rejection: a line that follows a blank line  *)
(* still passes.                                                            *)
C3_CodeLinesRejected ==
    (Lexed /\ \E k \in 1..Len(SourceText) : Misindented(SourceText, k, {"fence", "string"}))
    => (pc = "failed" /\ tokens = <<>>)

(* What lex() does keep: a misindented line of code with no blank line      *)
(* before it is rejected.                                                   *)
C3_NoBlankLineBefore ==
    (Lexed /\ \E k \in 1..Len(SourceText) :
                 /\ Misindented(SourceText, k, {"fence", "string"})
                 /\ \A j \in 1..(k - 1) : ~Blank_line(SourceText, j))
    => (pc = "failed" /\ tokens = <<>>)

(* Parser(text) of facet/parser.py rejects every line, blank or fenced,     *)
(* whose leading-space count is odd.                                        *)
C3_LineTableRejected ==
    (lines # "" /\ \E k \in 1..Len(SourceText) : LeadingSpaces(SourceText[k]) % 2 # 0)
    => lines = "F002"

-----------------------------------------------------------------------------
(* The nodes of a tree in document order: a node, then its children from    *)
(* first to last, the value of an anchored node included.                   *)
RECURSIVE Preorder(_)
RECURSIVE PreorderEach(_)
PreorderEach(xs) == IF xs = <<>> THEN <<>> ELSE Preorder(Head(xs)) \o PreorderEach(Tail(xs))

Preorder(value) ==
    <<value>> \o
    (IF value.t = "dict" THEN PreorderEach(Values(value))
     ELSE IF value.t = "list" THEN PreorderEach(value.xs)
     ELSE <<>>)

(* the alias at place i of the order has its anchor at an earlier place *)
DefinedEarlier(order, i) ==
    \E j \in 1..(i - 1) : IsAnchored(order[j]) /\ NameOf(order[j]) = NameOf(order[i])

DanglingAliases(order) ==
    {i \in 1..Len(order) : IsAlias(order[i]) /\ ~DefinedEarlier(order, i)}

Resolved_anchors == pc \in {"done", "failed"}

(* C11: in every tree that resolve_anchors returns for, each alias *name    *)
(* has an anchor &name earlier in document order; a tree with an alias that *)
(* has no such earlier anchor fails with an F2xx error.                     *)
C11_AliasAfterAnchor ==
    /\ pc = "done" => DanglingAliases(Preorder(out)) = {}
    /\ (Resolved_anchors /\ DanglingAliases(Preorder(out)) # {})
           => (pc = "failed" /\ err \in {"F201", "F202"})

(* What resolve_anchors keeps: an alias whose name no node of the tree      *)
(* defines, before or after it, fails with an F2xx error.                   *)
C11_AliasHasAnchor ==
    (Resolved_anchors /\ \E a \in AliasNodes(out) : AnchorDefs(out, NameOf(a.node)) = {})
        => (pc = "failed" /\ err \in {"F201", "F202"})

-----------------------------------------------------------------------------
(* the names that two or more of the given anchored nodes define *)
Redefined(defs) ==
    {n \in AnchorNames : Cardinality({d \in defs : NameOf(d.node) = n}) >= 2}

AnchoredNodes(value) == {d \in NodesOf(value, <<>>, <<>>) : IsAnchored(d.node)}

(* an anchored node that does not lie under a key "value" *)
OutsideValues(d) == \A i \in 1..Len(d.ip) : d.ip[i] # KeyStep(S_value)

(* C12: a tree in which one anchor name is defined by two nodes is rejected *)
(* with F202, at whatever depths the two definitions sit, including when    *)
(* one lies inside the value of another anchored node.                      *)
C12_RedefinitionF202 ==
    (Resolved_anchors /\ Redefined(AnchoredNodes(out)) # {})
        => (pc = "failed" /\ err = "F202")

(* What _walk_collect keeps: two definitions of a name that both lie        *)
(* outside the values of anchored nodes are rejected with F202.             *)
C12_OutsideValuesF202 ==
    (Resolved_anchors /\ Redefined({d \in AnchoredNodes(out) : OutsideValues(d)}) # {})
        => (pc = "failed" /\ err = "F202")

-----------------------------------------------------------------------------
(* The substitute pass, call by call. *)

CycleAmongAnchors == \E n \in AnchorNames : OnCycle(n)

(* every alias of the tree names a collected anchor *)
AllAliasesDefined == \A a \in AliasNodes(out) : Has(anchors, NameOf(a.node))

(* C13: resolve_anchors terminates on every tree, the calls of the          *)
(* substitute pass never nest deeper than the tree and its anchors allow,   *)
(* and when the collected anchors refer to each other in a cycle the pass   *)
(* ends with F201: "Anchor cycle detected" when every alias is defined, and *)
(* that or "Undefined anchor alias" when an undefined alias comes first.    *)
C13_SubstituteTerminates ==
    /\ <>Resolved_anchors
    /\ [](Len(walk) < MaxWalk)
    /\ (pc = "resolve_substitute" /\ CycleAmongAnchors)
           ~> (pc = "failed" /\ err = "F201")
    /\ (pc = "resolve_substitute" /\ CycleAmongAnchors /\ AllAliasesDefined)
           ~> (pc = "failed" /\ err = "F201" /\ msg = "Anchor cycle detected")

(* two anchors that refer to each other, rejected by the substitute pass *)
C13_Witness ==
    /\ pc = "failed" /\ msg = "Anchor cycle detected"
    /\ \E n, m \in AnchorNames : n # m /\ RefersTo(n, m) /\ RefersTo(m, n)

(* the calls of the substitute pass return what the pass returns as a whole *)
C13_CallsAgree ==
    /\ (pc = "done") => result = _walk_substitute(out, anchors, {}).v
    /\ (pc = "failed" /\ err = "F201") => msg = _walk_substitute(out, anchors, {}).msg

-----------------------------------------------------------------------------
(* if-expressions *)

Evaluated_if == pc \in {"done", "failed"} /\ tokens # <<>>

(* the operands X and Y of an expression written `X word Y`, <<>> when the  *)
(* expression is not of that form                                           *)
OperandsOf(text, word) ==
    IF Find(text, <<" ">> \o word \o <<" ">>, 1) = 0 THEN <<>>
    ELSE <<SubSeq(text, 1, Find(text, <<" ">> \o word \o <<" ">>, 1) - 1),
           SubSeq(text, Find(text, <<" ">> \o word \o <<" ">>, 1) + Len(word) + 2, Len(text))>>

BothEvaluate(p) ==
    p # <<>> /\ eval_if(p[1], env).err = "" /\ eval_if(p[2], env).err = ""

(* C14: when X and Y each evaluate without error, eval_if on `X and Y`      *)
(* returns without error the conjunction of their truth values and eval_if  *)
(* on `X or Y` their disjunction.                                           *)
C14_AndOrTruthTable ==
    /\ (Evaluated_if /\ BothEvaluate(OperandsOf(source, S_and))) =>
          /\ pc = "done"
          /\ result = BoolV(eval_if(OperandsOf(source, S_and)[1], env).v.b
                            /\ eval_if(OperandsOf(source, S_and)[2], env).v.b)
    /\ (Evaluated_if /\ BothEvaluate(OperandsOf(source, S_or))) =>
          /\ pc = "done"
          /\ result = BoolV(eval_if(OperandsOf(source, S_or)[1], env).v.b
                            \/ eval_if(OperandsOf(source, S_or)[2], env).v.b)

(* What the code does instead: when the left operand decides the result (a  *)
(* falsy X of `and`, a truthy X of `or`) the right operand is left unparsed *)
(* and the call ends with F701; otherwise the result is the truth value of  *)
(* the right operand.                                                       *)
C14_LeftDecidesF701 ==
    /\ (Evaluated_if /\ BothEvaluate(OperandsOf(source, S_and))) =>
          IF eval_if(OperandsOf(source, S_and)[1], env).v.b
          THEN pc = "done" /\ result = eval_if(OperandsOf(source, S_and)[2], env).v
          ELSE pc = "failed" /\ err = "F701"
    /\ (Evaluated_if /\ BothEvaluate(OperandsOf(source, S_or))) =>
          IF eval_if(OperandsOf(source, S_or)[1], env).v.b
          THEN pc = "failed" /\ err = "F701"
          ELSE pc = "done" /\ result = eval_if(OperandsOf(source, S_or)[2], env).v

(* the value a literal stands for *)
OwnValue(tok) == IF tok = S_null THEN Null ELSE _parse_literal(tok)

ResolvingNames == {x \in ExprNames : ExprGet(env, x).err = ""}

(* C15: a literal alone evaluates to the truth value of its own value,      *)
(* whatever the environment holds, null being falsy, and `x == null` is     *)
(* true exactly when the name x resolves to null.                           *)
C15_LiteralsOwnValue ==
    /\ (Evaluated_if /\ source \in ExprLiterals) =>
          (pc = "done" /\ result = BoolV(Truthy(OwnValue(source))))
    /\ \A x \in ResolvingNames :
          (Evaluated_if /\ source = Words(<<x, <<"=", "=">>, S_null>>)) =>
             (pc = "done" /\ result = BoolV(ExprGet(env, x).v = Null))

(* What the code does: every literal but null has its own value, and null   *)
(* is looked up in the environment as a name, F702 when it holds no such    *)
(* key.                                                                     *)
C15_NullIsLookedUp ==
    /\ (Evaluated_if /\ source \in ExprLiterals \ {S_null}) =>
          (pc = "done" /\ result = BoolV(Truthy(OwnValue(source))))
    /\ (Evaluated_if /\ source = S_null) =>
          IF Has(env, S_null)
          THEN pc = "done" /\ result = BoolV(Truthy(Get(env, S_null)))
          ELSE pc = "failed" /\ err = "F702"
    /\ \A x \in ResolvingNames :
          (Evaluated_if /\ source = Words(<<x, <<"=", "=">>, S_null>>)) =>
             IF Has(env, S_null)
             THEN pc = "done" /\ result = BoolV(PyEq(ExprGet(env, x).v, Get(env, S_null)))
             ELSE pc = "failed" /\ err = "F702"

UnresolvedNames == {x \in ExprNames : ExprGet(env, x).err # ""}

(* C16: an expression that holds a name which does not resolve in the       *)
(* environment ends with F702: the name alone, on either side of a          *)
(* comparison, or as the right operand of and / or.                         *)
C16_UnknownNameF702 ==
    \A u \in UnresolvedNames :
       /\ (Evaluated_if /\ source = u) => (pc = "failed" /\ err = "F702")
       /\ \A x \in ExprCompared \ UnresolvedNames :
             (Evaluated_if /\ source \in {Words(<<u, <<"=", "=">>, x>>),
                                          Words(<<x, <<"=", "=">>, u>>)}) =>
                (pc = "failed" /\ err = "F702")
       /\ \A x \in ExprAtoms \ UnresolvedNames :
             (Evaluated_if /\ source \in {Words(<<x, S_and, u>>), Words(<<x, S_or, u>>)}) =>
                (pc = "failed" /\ err = "F702")

(* What the code does: the name is looked up, and F702 raised, only when it *)
(* is parsed; behind an operand that decides the result (or behind the      *)
(* literal null) it is not.                                                 *)
C16_UnknownNameWhenParsed ==
    \A u \in UnresolvedNames :
       /\ (Evaluated_if /\ source = u) => (pc = "failed" /\ err = "F702")
       /\ \A x \in ExprCompared \ (UnresolvedNames \cup {S_null}) :
             (Evaluated_if /\ source \in {Words(<<u, <<"=", "=">>, x>>),
                                          Words(<<x, <<"=", "=">>, u>>)}) =>
                (pc = "failed" /\ err = "F702")
       /\ \A x \in ExprAtoms \ (UnresolvedNames \cup {S_null}) :
             /\ (Evaluated_if /\ source = Words(<<x, S_and, u>>)) =>
                   (pc = "failed" /\ err = IF eval_if(x, env).v.b THEN "F702" ELSE "F701")
             /\ (Evaluated_if /\ source = Words(<<x, S_or, u>>)) =>
                   (pc = "failed" /\ err = IF eval_if(x, env).v.b THEN "F701" ELSE "F702")

-----------------------------------------------------------------------------
(* Values, lists and references of the facet @f and where they stand in the *)
(* output.                                                                  *)

Compiled == pc \in {"done", "failed"}
WrittenFacet == doc[Len(doc)]
WrittenVars == doc[1]
InFacet == <<KeyStep(S_f)>>

AllItems(entries) == entries # <<>> /\ \A i \in DOMAIN entries : entries[i].e = "item"

(* The written lists: their items, the path of the sequence in the output   *)
(* and the number of blocks around them.                                    *)
RECURSIVE WrittenLists(_, _, _)
WrittenLists(entries, path, level) ==
    IF AllItems(entries)
    THEN {[items |-> entries, level |-> level,
           path |-> IF level = 0 THEN Append(path, KeyStep(S_items)) ELSE path]}
    ELSE UNION {IF entries[i].e = "block"
                THEN WrittenLists(entries[i].entries, Append(path, KeyStep(entries[i].key)),
                                  level + 1)
                ELSE {} : i \in DOMAIN entries}

(* The written values: key/value entries, and the items of the lists whose  *)
(* items all stand without "if", with the path of each in the output.  The  *)
(* code walks the body of the facet and the items of a list that is the     *)
(* body or stands under a key of the body; `walked` tells those.            *)
RECURSIVE WrittenValues(_, _, _)
WrittenValues(entries, path, level) ==
    UNION {IF entries[i].e = "block"
           THEN WrittenValues(entries[i].entries, Append(path, KeyStep(entries[i].key)),
                              level + 1)
           ELSE IF entries[i].e = "item"
           THEN (IF AllItems(entries) /\ \A j \in DOMAIN entries : entries[j].item_if = Null
                 THEN {[w |-> entries[i], walked |-> level <= 1,
                        path |-> Append(IF level = 0 THEN Append(path, KeyStep(S_items))
                                        ELSE path, IdxStep(i))]}
                 ELSE {})
           ELSE {[w |-> entries[i], walked |-> level = 0,
                  path |-> Append(path, KeyStep(entries[i].key))]} : i \in DOMAIN entries}

IfEvaluates(w) == w.item_if = Null \/ eval_if(w.item_if.s, env).err = ""
IfHolds(w) == w.item_if = Null \/ eval_if(w.item_if.s, env).v.b

(* substitution, then interpolation, then the lenses from left to right *)
Piped(w) == ThenLenses(EvalScalar(parse_value(w.value), env), w.lenses)

ListAsClaimed(l) ==
    (Compiled /\ \A i \in DOMAIN l.items : IfEvaluates(l.items[i])) =>
       IF \A i \in DOMAIN l.items : IfHolds(l.items[i]) => Piped(l.items[i]).err = ""
       THEN /\ pc = "done"
            /\ At(result, l.path)
                  = List([i \in 1..Len(SelectSeq(l.items, IfHolds)) |->
                             Piped(SelectSeq(l.items, IfHolds)[i]).v])
       ELSE pc = "failed"

(* C17: the output sequence of a list holds exactly the items whose "if" is *)
(* absent or true, in source order, each after substitution, interpolation  *)
(* and its lenses; an item whose "if" is false raises no error, whatever    *)
(* its value and lenses.                                                    *)
C17_GatedItemsDropped ==
    \A l \in WrittenLists(WrittenFacet.entries, InFacet, 0) : ListAsClaimed(l)

(* What the code does: so it is for a list that is the body of the facet or *)
(* stands under a key of the body.                                          *)
C17_WalkedListsGated ==
    \A l \in WrittenLists(WrittenFacet.entries, InFacet, 0) : l.level <= 1 => ListAsClaimed(l)

ValueAsClaimed(u) ==
    Compiled =>
       IF Piped(u.w).err # "" THEN pc = "failed" /\ err = Piped(u.w).err
       ELSE pc = "done" /\ At(result, u.path) = Piped(u.w).v

WithPipeline(u) == u.w.lenses # <<>> /\ ~IsFence(u.w.value)

(* C18: a key/value entry or list item written with lenses, at the top of   *)
(* the facet or inside nested blocks, stands in the output as its value     *)
(* after substitution, interpolation and its lenses from left to right.     *)
C18_PipelineApplied ==
    \A u \in WrittenValues(WrittenFacet.entries, InFacet, 0) :
       WithPipeline(u) => ValueAsClaimed(u)

(* What the code does: so it is for the entries of the body and the items   *)
(* of a list that is the body or stands under a key of the body.            *)
C18_WalkedPipelineApplied ==
    \A u \in WrittenValues(WrittenFacet.entries, InFacet, 0) :
       (WithPipeline(u) /\ u.walked) => ValueAsClaimed(u)

(* the raw text of a fence through the lenses *)
FencePiped(w) == apply_pipeline(StrV(w.value.value), w.lenses).v

VarsResolved == pc \in {"validate", "env", "eval", "resolve_collect", "resolve_substitute", "done"}
FencedVars == {i \in DOMAIN WrittenVars.entries : IsFence(WrittenVars.entries[i].value)}
RefersToFence(u) ==
    /\ u.w.lenses = <<>>
    /\ \E i \in FencedVars : u.w.value = DollarRef(WrittenVars.entries[i].key)

(* C19: a fenced value holding $name, ${path} or {{path}} goes through its  *)
(* lenses and stands in the output with the markers as written: in a facet  *)
(* at its own place, in @vars as the value of the variable and wherever the *)
(* variable is referred to, the names being defined or not.                 *)
C19_FencesVerbatim ==
    /\ \A u \in WrittenValues(WrittenFacet.entries, InFacet, 0) :
          IsFence(u.w.value) =>
             (Compiled => (pc = "done" /\ At(result, u.path) = FencePiped(u.w)))
    /\ \A i \in FencedVars :
          VarsResolved =>
             Get(compile_vars, WrittenVars.entries[i].key) = FencePiped(WrittenVars.entries[i])
    /\ \A u \in WrittenValues(WrittenFacet.entries, InFacet, 0) :
          (Compiled /\ resolve_mode = "all" /\ u.walked /\ RefersToFence(u)) =>
             (pc = "done" /\ At(result, u.path) = Get(compile_vars, Tail(u.w.value.s)))

(* What the code does: a fence of the body, or of a list that is the body   *)
(* or stands under a key of the body, is as claimed; a fence of @vars is    *)
(* kept as written, its lenses unused.                                      *)
C19_WalkedFencesVerbatim ==
    /\ \A u \in WrittenValues(WrittenFacet.entries, InFacet, 0) :
          (IsFence(u.w.value) /\ u.walked) =>
             (Compiled => (pc = "done" /\ At(result, u.path) = FencePiped(u.w)))
    /\ \A i \in FencedVars :
          VarsResolved =>
             Get(compile_vars, WrittenVars.entries[i].key)
                = StrV(WrittenVars.entries[i].value.value)

-----------------------------------------------------------------------------
(* Names in scope by mode *)

DefinedInVars(n) == \E i \in DOMAIN WrittenVars.entries : WrittenVars.entries[i].key = n
ValueInVars(n) ==
    WrittenVars.entries[CHOOSE i \in DOMAIN WrittenVars.entries :
                            WrittenVars.entries[i].key = n].value
ScopedNames == {N_h, N_v, N_b}
OnlyInVars(n) == DefinedInVars(n) /\ ~Has(host_vars, n)

(* the value the claim gives a name: the host's, else the one of @vars *)
ValueOf(n) == IF Has(host_vars, n) THEN Get(host_vars, n) ELSE ValueInVars(n)

IsRefTo(w, n) == w \in {DollarRef(n), BracedRef(n), TemplateRef(n)}

(* a reference to n where the evaluator evaluates values: as the value of a *)
(* key of the body or of an item of a list that is the body or stands under *)
(* a key of the body, with or without lenses                                *)
RefScoped(u, n) ==
    Compiled =>
       IF resolve_mode = "host" /\ OnlyInVars(n)
       THEN pc = "failed" /\ err = "F402A"
       ELSE pc = "done" /\ At(result, u.path) = apply_pipeline(ValueOf(n), u.w.lenses).v

(* a name as the "if" of the one item of a list, and as the "if" of @f *)
ItemIfScoped(l, n) ==
    Compiled =>
       IF resolve_mode = "host" /\ OnlyInVars(n)
       THEN pc = "failed" /\ err = "F702"
       ELSE pc = "done" /\ At(result, l.path) = List(<<l.items[1].value>>)
FacetIfScoped(n) ==
    Compiled =>
       IF resolve_mode = "host" /\ OnlyInVars(n)
       THEN pc = "failed" /\ err = "F702"
       ELSE pc = "done" /\ Has(result, S_f)

C20_HostModeFails ==
    /\ pc = "failed" /\ resolve_mode = "host" /\ err = "F402A"
    /\ \E u \in WrittenValues(WrittenFacet.entries, InFacet, 0) :
          u.walked /\ IsRefTo(u.w.value, N_v)
-----------------------------------------------------------------------------
(* Variables written with a pipeline *)

PickEntry == WrittenVars.entries[2]
XsOf(vs) == Get(vs, N_xs)
(* the value of pick as written, resolved against the variables before it *)
PickResolved == _resolve_value_topdown(parse_value(PickEntry.value), Dict(<<E(N_xs, XsOf(compile_vars))>>))
PickPiped == apply_pipeline(PickResolved.v, PickEntry.lenses)

(* C21: a variable written with a lens pipeline is stored as the pipeline's *)
(* result on its resolved value: with pick: $xs |> choose(seed=...) the     *)
(* variable pick is one element of xs.                                      *)
C21_VarsPipelineApplied ==
    (VarsResolved /\ PickEntry.lenses # <<>> /\ PickResolved.err = "" /\ PickPiped.err = "") =>
        /\ Get(compile_vars, N_pick) = PickPiped.v
        /\ (PickEntry.lenses[1].name = S_choose /\ PickEntry.value = DollarRef(N_xs)) =>
              \E i \in DOMAIN XsOf(compile_vars).xs :
                 Get(compile_vars, N_pick) = XsOf(compile_vars).xs[i]

(* What the code does: the variable is the resolved value, whatever the     *)
(* pipeline written after it, raising pipelines included.                    *)
C21_VarsPipelineIgnored ==
    (VarsResolved /\ PickResolved.err = "") => Get(compile_vars, N_pick) = PickResolved.v

C21_PickIsList ==
    /\ pc = "done" /\ resolve_mode = "all"
    /\ PickEntry.value = DollarRef(N_xs)
    /\ PickEntry.lenses = <<SeededCall(S_choose, IntV(42))>>
    /\ XsOf(compile_vars) = List(<<C_a, C_b, C_c>>)
    /\ Get(compile_vars, N_pick) = List(<<C_a, C_b, C_c>>)
-----------------------------------------------------------------------------
(* Seeded lenses *)

CountIn(xs, e) == Cardinality({i \in DOMAIN xs : xs[i] = e})
IsPermutation(xs, ys) ==
    Len(xs) = Len(ys) /\ \A i \in DOMAIN ys : CountIn(xs, ys[i]) = CountIn(ys, ys[i])
SeededOnList(name) ==
    /\ given.call.name = name
    /\ given.x.t = "list"
    /\ Seeded(given.call)
    /\ SeedOf(given.call) # Null

-----------------------------------------------------------------------------
(* Facet headers *)

HeaderFacet == doc[CHOOSE i \in DOMAIN doc : doc[i].name = S_f]
HeaderParsed == parse(doc).err = ""
IfWritten == {i \in DOMAIN HeaderFacet.attrs : HeaderFacet.attrs[i].k = S_if}
InOutput == pc = "done" /\ Has(result, S_f)

(* C23: an "if" in the attribute list of a facet whose value is not a       *)
(* quoted string - a boolean, a number, null or a bare identifier - fails   *)
(* the compilation with F704; a quoted string is evaluated as an expression *)
(* and decides whether the facet is in the output.                          *)
C23_IfMustBeQuoted ==
    \A i \in IfWritten :
       LET a == HeaderFacet.attrs[i]
       IN  (Compiled /\ HeaderParsed) =>
              IF a.tok # "STRING" THEN pc = "failed" /\ err = "F704"
              ELSE /\ err # "F704"
                   /\ eval_if(a.v.s, host_vars).err # "" => err = eval_if(a.v.s, host_vars).err
                   /\ eval_if(a.v.s, host_vars).err = "" =>
                         (Truthy(eval_if(a.v.s, host_vars).v) <=> (pc = "failed" \/ InOutput))

(* What the code does: F704 for a boolean and a number; null is as no "if"  *)
(* at all; a bare identifier is evaluated as the quoted one is.             *)
C23_IfByParsedValue ==
    \A i \in IfWritten :
       LET a == HeaderFacet.attrs[i]
       IN  (Compiled /\ HeaderParsed) =>
              /\ (err = "F704") <=> (a.tok \in {"BOOLEAN", "NUMBER"})
              /\ a.tok = "NULL" => (pc = "failed" \/ InOutput)
              /\ (a.tok = "IDENT" /\ eval_if(a.v.s, host_vars).err # "") =>
                    err = eval_if(a.v.s, host_vars).err
              /\ (a.tok = "IDENT" /\ eval_if(a.v.s, host_vars).err = "") =>
                    (Truthy(eval_if(a.v.s, host_vars).v) <=> (pc = "failed" \/ InOutput))

C23_NullIfCompiles ==
    /\ InOutput
    /\ \E i \in IfWritten : HeaderFacet.attrs[i].tok = "NULL"

-----------------------------------------------------------------------------
(* the attributes that would interpolate *)
Interpolating(a) ==
    /\ a.tok = "STRING"
    /\ \/ \E i \in 1..(Len(a.v.s) - 1) : a.v.s[i] = "{" /\ a.v.s[i + 1] = "{"
       \/ (a.v.s # <<>> /\ a.v.s[1] = "$")
WellFormed(a) == a.tok \in {"STRING", "IDENT", "NUMBER", "BOOLEAN", "NULL"}
Unprocessed ==
    /\ reads = <<>> /\ count = 0
    /\ facets = <<>> /\ normal_facets = <<>>
    /\ compile_vars = EmptyDict
    /\ evalOps = 0 /\ out = EmptyDict

(* C24: an attribute of a facet whose value holds "{{" or begins with "$"   *)
(* fails the compilation with F304 as soon as the attribute list is parsed  *)
(* up to it: no file has been read, no variable resolved and no body        *)
(* evaluated.                                                               *)
C24_InterpolationRejected ==
    \A i \in DOMAIN HeaderFacet.attrs :
       (/\ Interpolating(HeaderFacet.attrs[i])
        /\ \A j \in 1..(i - 1) :
              WellFormed(HeaderFacet.attrs[j]) /\ ~Interpolating(HeaderFacet.attrs[j]))
       => (pc # "parse" => (pc = "failed" /\ err = "F304" /\ Unprocessed))

C24_Witness ==
    /\ pc = "failed" /\ err = "F304" /\ Unprocessed
    /\ doc[1] = Import(T_a)
    /\ \E i \in DOMAIN HeaderFacet.attrs :
          HeaderFacet.attrs[i] = WAttr(A_r, "STRING", StrV(<<"$", "h">>))

-----------------------------------------------------------------------------
(* the attribute names of the header with the literals they were parsed to *)
ParsedLiterals(f) == parse_attrs(f.attrs, EmptyDict).v
AttrsOf(f) == Get(Get(result, S_f), S_attrs)

(* C25: the _attrs of a facet in the output is the map of the attribute     *)
(* names written in its header to the literals they were parsed to, the     *)
(* header declaring an anchor or not; a header without attributes gives no  *)
(* names.                                                                    *)
C25_AttrsAsWritten ==
    InOutput =>
       IF HeaderFacet.attrs = <<>>
       THEN ~Has(Get(result, S_f), S_attrs) \/ AttrsOf(HeaderFacet) = EmptyDict
       ELSE Has(Get(result, S_f), S_attrs) /\ AttrsOf(HeaderFacet) = ParsedLiterals(HeaderFacet)

(* What the code does: a header anchor is one more name, "&", of _attrs,    *)
(* and with an attribute called value beside it _attrs is that attribute's  *)
(* value.                                                                   *)
C25_AttrsWithAnchor ==
    InOutput =>
       IF HeaderFacet.anchor = <<>>
       THEN IF HeaderFacet.attrs = <<>> THEN ~Has(Get(result, S_f), S_attrs)
            ELSE AttrsOf(HeaderFacet) = ParsedLiterals(HeaderFacet)
       ELSE IF Has(ParsedLiterals(HeaderFacet), S_value)
            THEN AttrsOf(HeaderFacet) = Get(ParsedLiterals(HeaderFacet), S_value)
            ELSE AttrsOf(HeaderFacet)
                    = Put(ParsedLiterals(HeaderFacet), ANCHOR_KEY, StrV(HeaderFacet.anchor))

C25_AnchorInAttrs ==
    /\ InOutput
    /\ HeaderFacet.anchor = N_n
    /\ HeaderFacet.attrs = <<WAttr(A_r, "STRING", StrV(<<"u">>))>>
    /\ Has(AttrsOf(HeaderFacet), ANCHOR_KEY)

-----------------------------------------------------------------------------
(* C26: a compilation that fails raises a FacetError with a code: no other  *)
(* exception leaves canonize, whatever the arguments of a lens call, the    *)
(* end of an if-expression, the spec of a @var_types entry or the operands  *)
(* of "in".                                                                 *)

(* the exceptions of Python that are no FacetError *)
PythonErrors == {"TypeError", "AttributeError", "KeyError"}

C26_OnlyFacetErrors == pc = "failed" => err \notin PythonErrors

(* what the code does: the four inputs end in TypeError or AttributeError   *)
(* where the @var_types spec is a number (AttributeError), the "if" ends    *)
(* after an operator (AttributeError) or has a number to the left of "in"   *)
(* and a string to its right (TypeError), or the arguments do not fit the   *)
(* lens (TypeError); every other failure carries a code.                    *)
FailTypeSpec == doc[2].entries[1].value
FailIf == IF doc[3].attrs = <<>> THEN <<>> ELSE doc[3].attrs[1].v.s
FailCall == doc[3].entries[1].lenses
BadArguments ==
    FailCall # <<>> /\ ~Binds(Params(FailCall[1].name), FailCall[1])

C26_EscapesWhere ==
    pc = "failed" =>
        /\ err # "unmodelled"
        /\ err \in PythonErrors =>
              \/ FailTypeSpec.t # "dict"
              \/ FailIf \in {<<"a", " ", "=", "=">>, <<"n", "o", "t">>,
                             <<"1", " ", "i", "n", " ", SQuote, "s", SQuote>>}
              \/ BadArguments
        /\ (FailTypeSpec.t # "dict") => err = "AttributeError"

C26_TypeErrorEscapes ==
    /\ pc = "failed"
    /\ err = "TypeError"
    /\ BadArguments

-----------------------------------------------------------------------------
(* C27: a body that holds both "-" items and keyed entries is rejected with *)
(* F101, as a nested block under a key and as the body of a facet alike, so *)
(* that no entry of such a body is missing from the output.                 *)

ShapeSubject == doc[CHOOSE i \in 1..Len(doc) : doc[i].name = <<"a">>]

Mixed(entries) ==
    /\ \E i \in 1..Len(entries) : entries[i].e = "item"
    /\ \E i \in 1..Len(entries) : entries[i].e # "item"

RECURSIVE MixedBelow(_)
MixedBelow(entries) ==
    \E i \in 1..Len(entries) :
        /\ entries[i].e = "block"
        /\ Mixed(entries[i].entries) \/ MixedBelow(entries[i].entries)

C27_MixedBodyRejected ==
    (Compiled /\ (Mixed(ShapeSubject.entries) \/ MixedBelow(ShapeSubject.entries)))
        => (pc = "failed" /\ err = "F101")

(* what the code does: F101 is raised for the mixed blocks under a key and  *)
(* for nothing else; the mixed body of a facet is compiled as a map         *)
C27_MixedBlockRejected ==
    Compiled => (err = "F101" <=> MixedBelow(ShapeSubject.entries))

(* "@a" with "k: 1" and "- 1" compiles to {a: {k: 1}}: the item is left out *)
C27_ItemLeftOut ==
    /\ pc = "done"
    /\ doc = <<WFacet(<<"a">>, <<>>, <<>>, <<WKV(K_k, IntV(1), <<>>), WItem(IntV(1), Null, <<>>)>>)>>
    /\ result = Dict(<<E(<<"a">>, Dict(<<E(K_k, IntV(1))>>))>>)

-----------------------------------------------------------------------------
(* C28: a string lens (trim, dedent, squeeze_spaces, limit, lower, upper,   *)
(* replace, regex_replace, normalize_newlines) applied to a value that is   *)
(* no string raises F102 and returns nothing, trim as the others.           *)

StringLenses ==
    {S_trim, S_dedent, S_squeeze_spaces, S_limit, S_lower, S_upper, S_replace,
     S_regex_replace, S_normalize_newlines}

(* the call gives the lens the arguments of its signature *)
WellCalled ==
    given.call.name \in BUILTINS => Binds(Params(given.call.name), given.call)

OnNonString ==
    /\ given.call.name \in StringLenses
    /\ ~IsStr(given.x)
    /\ WellCalled

C28_NonStringRejected ==
    OnNonString => \A i \in 1..Len(returned) : returned[i].err = "F102"

(* what the code does: F102 from every string lens it has but trim, which   *)
(* returns the value as it was given; normalize_newlines is no lens (F802)  *)
C28_NonStringByLens ==
    OnNonString =>
        \A i \in 1..Len(returned) :
            CASE given.call.name = S_trim -> returned[i] = Ok(given.x)
              [] given.call.name = S_normalize_newlines -> returned[i].err = "F802"
              [] OTHER -> returned[i].err = "F102"

C28_TrimReturnsNumber ==
    /\ given.x = IntV(1)
    /\ given.call = Positional(S_trim, <<>>)
    /\ returned = <<Ok(IntV(1)), Ok(IntV(1))>>

-----------------------------------------------------------------------------
(* C29: while lex() runs and after it, indent_stack is [0, 1, ..., k] for   *)
(* some k >= 0, and the INDENT tokens emitted so far are k more than the    *)
(* DEDENT tokens; when lex() returns, k = 0 and the token list holds one    *)
(* EOF token, its last.                                                     *)

Emitted(kind) ==
    Cardinality({j \in 1..Len(lexer.self.tokens) : lexer.self.tokens[j].kind = kind})

C29_IndentStack ==
    lexer # Null =>
        LET stack == lexer.self.indent_stack IN
        /\ stack # <<>>
        /\ \A j \in 1..Len(stack) : stack[j] = j - 1
        /\ Emitted("INDENT") - Emitted("DEDENT") = Len(stack) - 1
        /\ pc = "lexed" =>
              /\ Len(stack) = 1
              /\ Emitted("EOF") = 1
              /\ tokens # <<>>
              /\ tokens[Len(tokens)].kind = "EOF"
              /\ tokens = lexer.self.tokens

(* lex() has returned after two levels were opened and closed, one by the   *)
(* loop of _handle_indent and one by the flush at the end of the text       *)
C29_Witness ==
    /\ pc = "lexed"
    /\ source = SourceLine(0, <<"a">>) \o SourceLine(2, <<"a">>) \o SourceLine(4, <<"a">>)
                \o SourceLine(2, <<"a">>)
    /\ Emitted("INDENT") = 2
    /\ Emitted("DEDENT") = 2

(* the passes, taken one at a time, end as lex() taken whole does *)
LexStepsAgree ==
    pc \in {"lexed", "failed"} =>
        /\ lexer.self.tokens = lex(source).tokens
        /\ lexer.self.err = lex(source).err
        /\ lexer.self.msg = lex(source).msg

-----------------------------------------------------------------------------
(* C30: on every token list that lex() can return, parse() ends with a list *)
(* of facets or with a FacetError: every iteration of a loop of the parser  *)
(* takes at least one token or raises, and no index after that of EOF is    *)
(* read.                                                                    *)

(* the loop at whose top the innermost call stands has taken a token since  *)
(* its iteration before began                                               *)
LoopsAdvance ==
    pc = "parsing" =>
        /\ (Here(parser).at = "loop" /\ Here(parser).start > 0)
              => parser.i > Here(parser).start
        /\ (Here(parser).fn = "parse_lenses" /\ Here(parser).at = "args"
            /\ Here(parser).inner > 0)
              => parser.i > Here(parser).inner

(* the parser stands at EOF at the latest and reads nothing after it *)
WithinTokens ==
    /\ parser.i <= Len(tokens) + 1
    /\ Ended_(tokens) =>
          /\ parser.i <= Len(tokens)
          /\ pc = "parsing" => Needed(parser, tokens) <= Len(tokens)

C30_ParseEnds ==
    /\ LoopsAdvance
    /\ WithinTokens
    /\ pc = "failed" => err # "RecursionError"

(* what the code does: the loops advance and no index after EOF is read,    *)
(* but parse_value, parse_inline_map, parse_inline_list and parse_block     *)
(* call each other once more for every "&", "[", "{" and nested block, and  *)
(* at the depth the interpreter allows the call raises RecursionError       *)
FacetErrors == {"F001", "F101", "F301", "F304", "F305"}

C30_ParseEndsWithinDepth ==
    /\ LoopsAdvance
    /\ WithinTokens
    /\ pc = "failed" =>
          \/ err \in FacetErrors
          \/ err = "RecursionError" /\ Len(parser.stack) = RecursionLimit
    /\ pc = "parsed" => parser.stack = <<>> /\ Ended_(tokens)

(* under the fair specification parse() returns or raises *)
C30_ParseReturnsOrRaises == <>(pc \in {"parsed", "failed"})

C30_ListsTooDeep ==
    /\ pc = "failed"
    /\ err = "RecursionError"
    /\ tokens = Indented_ \o <<T_ident, Bare("COLON"), Bare("LBRACKET"), Bare("LBRACKET"),
                               Bare("LBRACKET")>>
====
